---------------------------- MODULE Spec2Model ----------------------------
(***************************************************************************)
(* Model of the SAM-to-pairwise renderer of y9c/hey (cmd/sam2pairwise.go): *)
(* the CIGAR decoder parseCigar, the MD-tag decoder parseMDTag and the     *)
(* reconstructor samToPairwise with its renderer applyColor.               *)
(*                                                                         *)
(* A Go string is a sequence of one-character strings (all inputs are      *)
(* ASCII, so a rune is a byte and range's index is the position).          *)
(* A strings.Builder is the sequence of what was written to it.            *)
(***************************************************************************)
EXTENDS Integers, Sequences, FiniteSets, Bags, TLC

VARIABLES
    \* ---- the decoders run alone (specification SpecParse)
    pKind,              \* "cigar" | "md" | "none": which decoder is called
    pInput,             \* the string handed to it
    pResult,            \* its return value, once pDone
    pDone,
    \* ---- one call of samToPairwise (specification Spec)
    seq, cigar, mdTag,  \* arguments
    useKnownMutation, knownRefBase, knownAltBase, markChar,
    cigarOps, mdEntries,
    hasMD, mdParseErr,
    mdIndex, mdSubPos,  \* MD cursor (mdIndex is 0-based as in the source)
    seqPos,             \* query cursor (0-based as in the source)
    opIdx,              \* position of the range loop over cigarOps (1-based)
    i,                  \* position inside the current operation
    refBuilder, alignedSeqBuilder, markerBuilder,
    pc,                 \* "idle" | "call" | "loop" | "done" | "error"
    ret,                \* the four return values
    warnings,           \* what the call wrote to stderr, in order
    prov,               \* history: for each marker column, what produced it
    \* ---- the driver processSAMStdin (specification SpecDriver)
    lines,              \* standard input, line by line
    filterForward, filterReverse,
    scanned,            \* number of lines the scanner has returned
    scanErr,            \* scanner.Err() # nil
    dpc,                \* position of the main goroutine
    continueProcessing,
    interruptChan,      \* "empty" | "signal" | "received"
    mdTagValue,
    stdout, stderr,
    alone,              \* history: what samToPairwise returns for each line alone
    afterSet,           \* history: lines scanned and blocks started after the
                        \* signal goroutine has written continueProcessing
    \* ---- two calls of samToPairwise on two goroutines (specification SpecConc)
    running,            \* the goroutine that owns the call variables above
    other,              \* the call variables of the goroutine that is not running
    \* ---- processFilesConcurrently (specification SpecPool)
    simple,             \* TRUE for processFilesConcurrentlySimple
    files, numWorkers,
    jobs, jobsClosed,
    resultChannel, resultClosed,
    wg,                 \* counter of the WaitGroup
    mpc, fileIdx,       \* position of the calling goroutine, and of its send loop
    workers,            \* bag of the workers' states: position and current job
    waiter,             \* position of the goroutine that waits and closes
    results,
    fault               \* the panic that has happened, if any

parseVars == <<pKind, pInput, pResult, pDone>>
argVars   == <<seq, cigar, mdTag, useKnownMutation, knownRefBase, knownAltBase, markChar>>
walkVars  == <<cigarOps, mdEntries, hasMD, mdParseErr, mdIndex, mdSubPos, seqPos,
               opIdx, i, refBuilder, alignedSeqBuilder, markerBuilder, pc, ret,
               warnings, prov>>
driverVars == <<lines, filterForward, filterReverse, scanned, scanErr, dpc,
                continueProcessing, interruptChan, mdTagValue, stdout, stderr, alone,
                afterSet>>
concVars  == <<running, other>>
poolVars  == <<simple, files, numWorkers, jobs, jobsClosed, resultChannel, resultClosed,
               wg, mpc, fileIdx, workers, waiter, results, fault>>
envVars   == <<driverVars, concVars, poolVars>>
vars == <<parseVars, argVars, walkVars, envVars>>

---------------------------------------------------------------------------
(* Characters                                                              *)

DigitChars == <<"0", "1", "2", "3", "4", "5", "6", "7", "8", "9">>

\* char >= '0' && char <= '9'
IsDigit(char) == \E d \in 1..10 : DigitChars[d] = char

DigitVal(char) == (CHOOSE d \in 1..10 : DigitChars[d] = char) - 1

Letters ==
    {"A", "B", "C", "D", "E", "F", "G", "H", "I", "J", "K", "L", "M", "N", "O",
     "P", "Q", "R", "S", "T", "U", "V", "W", "X", "Y", "Z",
     "a", "b", "c", "d", "e", "f", "g", "h", "i", "j", "k", "l", "m", "n", "o",
     "p", "q", "r", "s", "t", "u", "v", "w", "x", "y", "z"}

\* (char >= 'A' && char <= 'Z') || (char >= 'a' && char <= 'z')
IsLetter(char) == char \in Letters

\* strings.ContainsRune("MIDNSHP=X", char)
CigarOpChars == {"M", "I", "D", "N", "S", "H", "P", "=", "X"}

---------------------------------------------------------------------------
(* strconv.Atoi on a non-empty run of digits, and %d formatting            *)

RECURSIVE StripZeros(_)
StripZeros(ds) ==
    IF Len(ds) > 1 /\ ds[1] = "0" THEN StripZeros(Tail(ds)) ELSE ds

\* The digits of the largest int (64-bit builds: 9223372036854775807).
MaxIntDigits ==
    <<"9", "2", "2", "3", "3", "7", "2", "0", "3", "6", "8", "5", "4", "7",
      "7", "5", "8", "0", "7">>

RECURSIVE LexLeq(_, _)
LexLeq(a, b) ==
    IF a = <<>> THEN TRUE
    ELSE IF DigitVal(a[1]) < DigitVal(b[1]) THEN TRUE
    ELSE IF DigitVal(a[1]) > DigitVal(b[1]) THEN FALSE
    ELSE LexLeq(Tail(a), Tail(b))

\* Atoi returns an error exactly when the value is out of the int range.
AtoiOk(ds) ==
    LET s == StripZeros(ds)
    IN  \/ Len(s) < Len(MaxIntDigits)
        \/ Len(s) = Len(MaxIntDigits) /\ LexLeq(s, MaxIntDigits)

RECURSIVE AtoiAcc(_, _)
AtoiAcc(ds, acc) ==
    IF ds = <<>> THEN acc ELSE AtoiAcc(Tail(ds), acc * 10 + DigitVal(ds[1]))

Atoi(ds) == AtoiAcc(ds, 0)

\* fmt's %d of a non-negative int
RECURSIVE Itoa(_)
Itoa(n) ==
    IF n < 10 THEN <<DigitChars[n + 1]>>
    ELSE Append(Itoa(n \div 10), DigitChars[(n % 10) + 1])

---------------------------------------------------------------------------
(* parseCigar                                                              *)

\* The loop's local state: ops, lengthStr, and the error returned ("" = none).
CigarStart == [ops |-> <<>>, lengthStr |-> <<>>, err |-> ""]

\* Mutant of CigarChar: a zero length is let through (length < 0 for <= 0).
CigarCharZeroOk(st, char) ==
    IF IsDigit(char)
    THEN [st EXCEPT !.lengthStr = Append(@, char)]
    ELSE IF char \in CigarOpChars
    THEN IF Len(st.lengthStr) = 0 THEN [st EXCEPT !.err = "no preceding length"]
         ELSE IF ~AtoiOk(st.lengthStr) THEN [st EXCEPT !.err = "invalid length format"]
         ELSE [st EXCEPT !.ops = Append(@, [Length |-> Atoi(st.lengthStr), Op |-> char]),
                         !.lengthStr = <<>>]
    ELSE [st EXCEPT !.err = "invalid character"]

\* Mutant of CigarChar: an operation is put in front of the list.
CigarCharPrepend(st, char) ==
    IF IsDigit(char)
    THEN [st EXCEPT !.lengthStr = Append(@, char)]
    ELSE IF char \in CigarOpChars
    THEN IF Len(st.lengthStr) = 0 THEN [st EXCEPT !.err = "no preceding length"]
         ELSE IF ~AtoiOk(st.lengthStr) THEN [st EXCEPT !.err = "invalid length format"]
         ELSE IF Atoi(st.lengthStr) <= 0 THEN [st EXCEPT !.err = "non-positive length"]
         ELSE [st EXCEPT !.ops = <<[Length |-> Atoi(st.lengthStr), Op |-> char]>> \o @,
                         !.lengthStr = <<>>]
    ELSE [st EXCEPT !.err = "invalid character"]

\* One iteration of the loop over the characters (lines 708-728).
CigarChar(st, char) ==
    IF IsDigit(char)
    THEN [st EXCEPT !.lengthStr = Append(@, char)]
    ELSE IF char \in CigarOpChars
    THEN IF Len(st.lengthStr) = 0 THEN [st EXCEPT !.err = "no preceding length"]
         ELSE IF ~AtoiOk(st.lengthStr) THEN [st EXCEPT !.err = "invalid length format"]
         ELSE IF Atoi(st.lengthStr) <= 0 THEN [st EXCEPT !.err = "non-positive length"]
         ELSE [st EXCEPT !.ops = Append(@, [Length |-> Atoi(st.lengthStr), Op |-> char]),
                         !.lengthStr = <<>>]
    ELSE [st EXCEPT !.err = "invalid character"]

RECURSIVE CigarLoop(_, _, _)
CigarLoop(str, k, st) ==
    IF k > Len(str) THEN st
    ELSE LET s1 == CigarChar(st, str[k])
         IN  IF s1.err # "" THEN s1 ELSE CigarLoop(str, k + 1, s1)

\* parseCigar: [ops, err]; ops is nil (empty) whenever err is set.
parseCigar(str) ==
    IF str = <<"*">> \/ str = <<>> THEN [ops |-> <<>>, err |-> ""]
    ELSE LET st == CigarLoop(str, 1, CigarStart)
         IN  IF st.err # "" THEN [ops |-> <<>>, err |-> st.err]
             ELSE IF Len(st.lengthStr) > 0 THEN [ops |-> <<>>, err |-> "incomplete operation"]
             ELSE [ops |-> st.ops, err |-> ""]

---------------------------------------------------------------------------
(* parseMDTag                                                              *)

MDTagEntry(num, changes, isDel) == [Num |-> num, Changes |-> changes, IsDel |-> isDel]

MDStart == [entries |-> <<>>, numStr |-> <<>>, changeStr |-> <<>>, state |-> "num", err |-> ""]

\* Mutant of addNumEntry: a zero count is not recorded (if num > 0).
addNumEntrySkipZero(st) ==
    IF Len(st.numStr) > 0
    THEN IF ~AtoiOk(st.numStr) THEN [st EXCEPT !.err = "internal error: invalid number"]
         ELSE IF Atoi(st.numStr) = 0 THEN [st EXCEPT !.numStr = <<>>]
         ELSE [st EXCEPT !.entries = Append(@, MDTagEntry(Atoi(st.numStr), <<>>, FALSE)),
                         !.numStr = <<>>]
    ELSE st

addNumEntry(st) ==
    IF Len(st.numStr) > 0
    THEN IF ~AtoiOk(st.numStr) THEN [st EXCEPT !.err = "internal error: invalid number"]
         ELSE [st EXCEPT !.entries = Append(@, MDTagEntry(Atoi(st.numStr), <<>>, FALSE)),
                         !.numStr = <<>>]
    ELSE st

\* Mutant of addDelEntry: the entry is appended without IsDel.
addDelEntryNotDel(st) ==
    IF Len(st.changeStr) > 0
    THEN [st EXCEPT !.entries = Append(@, MDTagEntry(0, st.changeStr, FALSE)),
                    !.changeStr = <<>>]
    ELSE [st EXCEPT !.err = "empty deletion sequence"]

addDelEntry(st) ==
    IF Len(st.changeStr) > 0
    THEN [st EXCEPT !.entries = Append(@, MDTagEntry(0, st.changeStr, TRUE)),
                    !.changeStr = <<>>]
    ELSE [st EXCEPT !.err = "empty deletion sequence"]

addMismatchEntry(st) ==
    IF Len(st.changeStr) = 1
    THEN [st EXCEPT !.entries = Append(@, MDTagEntry(0, st.changeStr, FALSE)),
                    !.changeStr = <<>>]
    ELSE [st EXCEPT !.err = "invalid mismatch sequence"]

\* case "num" (lines 260-276)
MDCharNum(st, char) ==
    IF IsDigit(char) THEN [st EXCEPT !.numStr = Append(@, char)]
    ELSE LET s1 == addNumEntry(st)
         IN  IF s1.err # "" THEN s1
             ELSE IF char = "^" THEN [s1 EXCEPT !.state = "del_start"]
             ELSE IF IsLetter(char)
             THEN [s1 EXCEPT !.changeStr = Append(@, char), !.state = "change"]
             ELSE [s1 EXCEPT !.err = "unexpected character after number"]

\* Mutant of MDCharChange: a second letter starts another mismatch.
MDCharChangeLetters(st, char) ==
    LET s1 == addMismatchEntry(st)
    IN  IF s1.err # "" THEN s1
        ELSE IF IsDigit(char) THEN [s1 EXCEPT !.numStr = Append(@, char), !.state = "num"]
        ELSE IF char = "^" THEN [s1 EXCEPT !.state = "del_start"]
        ELSE IF IsLetter(char) THEN [s1 EXCEPT !.changeStr = Append(@, char)]
        ELSE [s1 EXCEPT !.err = "unexpected character after mismatch base"]

\* case "change" (lines 277-290)
MDCharChange(st, char) ==
    LET s1 == addMismatchEntry(st)
    IN  IF s1.err # "" THEN s1
        ELSE IF IsDigit(char) THEN [s1 EXCEPT !.numStr = Append(@, char), !.state = "num"]
        ELSE IF char = "^" THEN [s1 EXCEPT !.state = "del_start"]
        ELSE [s1 EXCEPT !.err = "unexpected character after mismatch base"]

\* case "del_start" (lines 291-297)
MDCharDelStart(st, char) ==
    IF IsLetter(char) THEN [st EXCEPT !.changeStr = Append(@, char), !.state = "del"]
    ELSE [st EXCEPT !.err = "expected base after deletion"]

\* case "del" (lines 298-314)
MDCharDel(st, char) ==
    IF IsLetter(char) THEN [st EXCEPT !.changeStr = Append(@, char)]
    ELSE LET s1 == addDelEntry(st)
         IN  IF s1.err # "" THEN s1
             ELSE IF IsDigit(char) THEN [s1 EXCEPT !.numStr = Append(@, char), !.state = "num"]
             ELSE IF char = "^" THEN [s1 EXCEPT !.state = "del_start"]
             ELSE [s1 EXCEPT !.err = "unexpected character after deletion sequence"]

\* switch state (lines 259-315)
MDChar(st, char) ==
    CASE st.state = "num"       -> MDCharNum(st, char)
      [] st.state = "change"    -> MDCharChange(st, char)
      [] st.state = "del_start" -> MDCharDelStart(st, char)
      [] st.state = "del"       -> MDCharDel(st, char)

\* if isLastChar { switch state ... } (lines 318-334)
MDEnd(st) ==
    CASE st.state = "num"       -> addNumEntry(st)
      [] st.state = "change"    -> [st EXCEPT !.err = "ends after a mismatch base"]
      [] st.state = "del"       -> addDelEntry(st)
      [] st.state = "del_start" -> [st EXCEPT !.err = "ends with deletion start"]

RECURSIVE MDLoop(_, _, _)
MDLoop(str, k, st) ==
    IF k > Len(str) THEN st
    ELSE LET s1 == MDChar(st, str[k])
             s2 == IF s1.err = "" /\ k = Len(str) THEN MDEnd(s1) ELSE s1
         IN  IF s2.err # "" THEN s2 ELSE MDLoop(str, k + 1, s2)

\* parseMDTag: [entries, err]; entries is nil (empty) whenever err is set.
parseMDTag(str) ==
    IF str = <<>> THEN [entries |-> <<>>, err |-> ""]
    ELSE LET st == MDLoop(str, 1, MDStart)
         IN  IF st.err # "" THEN [entries |-> <<>>, err |-> st.err]
             ELSE [entries |-> st.entries, err |-> ""]

---------------------------------------------------------------------------
(* applyColor: what is written to a builder for one base.  A cell keeps    *)
(* the character, the shouldHighlight flag it was written with, and the    *)
(* markup that wraps it ("" = none).                                       *)

Cell(ch, hl, style) == [ch |-> ch, hl |-> hl, style |-> style]

\* lines 634-653
HighlightColor(base, shouldHighlight) ==
    IF ~shouldHighlight THEN ""
    ELSE CASE base \in {"A", "a"} -> "red"
           [] base \in {"T", "t"} -> "green"
           [] base \in {"G", "g"} -> "yellow"
           [] base \in {"C", "c"} -> "blue"
           [] base = "-"          -> "black"
           [] base = "*"          -> "magenta"
           [] OTHER               -> ""

\* Mutant of applyColor: every highlighted base gets the background of 'A'.
applyColorOneColor(builder, base, shouldHighlight) ==
    LET style ==
            CASE base \in {"A", "a", "T", "t", "G", "g", "C", "c"} ->
                     IF shouldHighlight THEN "bg-red" ELSE ""
              [] base = "-" -> IF shouldHighlight THEN "bg-black" ELSE ""
              [] base = "*" -> IF shouldHighlight THEN "bg-magenta" ELSE ""
              [] base \in {"N", "n", "."} -> "darkgrey"
              [] OTHER -> ""
    IN  Append(builder, Cell(base, shouldHighlight, style))

\* lines 655-689
applyColor(builder, base, shouldHighlight) ==
    LET color == HighlightColor(base, shouldHighlight)
        style ==
            CASE base \in {"A", "a", "T", "t", "G", "g", "C", "c"} ->
                     IF shouldHighlight /\ color # "" THEN "bg-" \o color ELSE ""
              [] base = "-" ->
                     IF shouldHighlight /\ color = "black" THEN "bg-black" ELSE ""
              [] base = "*" ->
                     IF shouldHighlight /\ color = "magenta" THEN "bg-magenta" ELSE ""
              [] base \in {"N", "n", "."} -> "darkgrey"
              [] OTHER -> ""
    IN  Append(builder, Cell(base, shouldHighlight, style))

\* strings.Repeat(ch, n) written inside <darkgrey>...</darkgrey>
GreyRepeat(ch, n) == [k \in 1..n |-> Cell(ch, FALSE, "darkgrey")]

GreyString(str) == [k \in 1..Len(str) |-> Cell(str[k], FALSE, "darkgrey")]

Repeat(x, n) == [k \in 1..n |-> x]

\* The visible characters of a track, markup ignored.
Visible(builder) == [k \in 1..Len(builder) |-> builder[k].ch]

---------------------------------------------------------------------------
(* samToPairwise: the MD cursor                                            *)

minIntronCompressLength == 20
condensedNSEdgeLength == 5

\* mdEntries[mdIndex] of the source (0-based index)
EntryAt(entries, idx) == entries[idx + 1]

\* Num == 0 && len(Changes) == 0 && !IsDel
IsPlaceholder(e) == e.Num = 0 /\ Len(e.Changes) = 0 /\ ~e.IsDel

\* Mutant of SkipPlaceholders: placeholders are not skipped.
SkipPlaceholdersNone(entries, idx) == idx

\* for mdIndex < len(mdEntries) && <placeholder> { mdIndex++ }
RECURSIVE SkipPlaceholders(_, _)
SkipPlaceholders(entries, idx) ==
    IF idx < Len(entries) /\ IsPlaceholder(EntryAt(entries, idx))
    THEN SkipPlaceholders(entries, idx + 1)
    ELSE idx

\* Mutant of AlignedMD: the mismatch entry's base is not used (refBase stays 'N').
AlignedMDNoBase(entries, idx0, sub, readBase) ==
    LET idx == SkipPlaceholders(entries, idx0)
    IN  IF idx >= Len(entries)
        THEN [refBase |-> "N", isMismatch |-> TRUE, hasMD |-> FALSE,
              mdIndex |-> idx, mdSubPos |-> sub, err |-> "", warn |-> "MD ended during M/=/X"]
        ELSE LET e == EntryAt(entries, idx)
             IN  IF e.IsDel
                 THEN [refBase |-> "N", isMismatch |-> FALSE, hasMD |-> TRUE,
                       mdIndex |-> idx, mdSubPos |-> sub,
                       err |-> "MD tag indicates deletion during CIGAR M/=/X", warn |-> ""]
                 ELSE IF e.Num > 0
                 THEN [refBase |-> readBase, isMismatch |-> FALSE, hasMD |-> TRUE,
                       mdIndex |-> IF sub + 1 = e.Num THEN idx + 1 ELSE idx,
                       mdSubPos |-> IF sub + 1 = e.Num THEN 0 ELSE sub + 1,
                       err |-> "", warn |-> ""]
                 ELSE [refBase |-> "N",
                       isMismatch |-> TRUE, hasMD |-> TRUE,
                       mdIndex |-> idx + 1, mdSubPos |-> 0, err |-> "",
                       warn |-> IF Len(e.Changes) # 1 THEN "Invalid MD mismatch entry" ELSE ""]

\* Mutant of AlignedMD: a Deletion entry met at an M/=/X position is passed
\* over and the reference base is guessed as 'N'.
AlignedMDGuess(entries, idx0, sub, readBase) ==
    LET idx == SkipPlaceholders(entries, idx0)
    IN  IF idx >= Len(entries)
        THEN [refBase |-> "N", isMismatch |-> TRUE, hasMD |-> FALSE,
              mdIndex |-> idx, mdSubPos |-> sub, err |-> "", warn |-> "MD ended during M/=/X"]
        ELSE LET e == EntryAt(entries, idx)
             IN  IF e.IsDel
                 THEN [refBase |-> "N", isMismatch |-> TRUE, hasMD |-> TRUE,
                       mdIndex |-> idx + 1, mdSubPos |-> 0, err |-> "", warn |-> ""]
                 ELSE IF e.Num > 0
                 THEN [refBase |-> readBase, isMismatch |-> FALSE, hasMD |-> TRUE,
                       mdIndex |-> IF sub + 1 = e.Num THEN idx + 1 ELSE idx,
                       mdSubPos |-> IF sub + 1 = e.Num THEN 0 ELSE sub + 1,
                       err |-> "", warn |-> ""]
                 ELSE [refBase |-> IF Len(e.Changes) # 1 THEN "N" ELSE e.Changes[1],
                       isMismatch |-> TRUE, hasMD |-> TRUE,
                       mdIndex |-> idx + 1, mdSubPos |-> 0, err |-> "",
                       warn |-> IF Len(e.Changes) # 1 THEN "Invalid MD mismatch entry" ELSE ""]

\* Mutant of AlignedMD: a match run is left after its first position.
AlignedMDEarly(entries, idx0, sub, readBase) ==
    LET idx == SkipPlaceholders(entries, idx0)
    IN  IF idx >= Len(entries)
        THEN [refBase |-> "N", isMismatch |-> TRUE, hasMD |-> FALSE,
              mdIndex |-> idx, mdSubPos |-> sub, err |-> "", warn |-> "MD ended during M/=/X"]
        ELSE LET e == EntryAt(entries, idx)
             IN  IF e.IsDel
                 THEN [refBase |-> "N", isMismatch |-> FALSE, hasMD |-> TRUE,
                       mdIndex |-> idx, mdSubPos |-> sub,
                       err |-> "MD tag indicates deletion during CIGAR M/=/X", warn |-> ""]
                 ELSE IF e.Num > 0
                 THEN [refBase |-> readBase, isMismatch |-> FALSE, hasMD |-> TRUE,
                       mdIndex |-> idx + 1, mdSubPos |-> 0,
                       err |-> "", warn |-> ""]
                 ELSE [refBase |-> IF Len(e.Changes) # 1 THEN "N" ELSE e.Changes[1],
                       isMismatch |-> TRUE, hasMD |-> TRUE,
                       mdIndex |-> idx + 1, mdSubPos |-> 0, err |-> "",
                       warn |-> IF Len(e.Changes) # 1 THEN "Invalid MD mismatch entry" ELSE ""]

\* Mutant of AlignedMD: mdSubPos is not reset when a match run is used up.
AlignedMDKeepSub(entries, idx0, sub, readBase) ==
    LET idx == SkipPlaceholders(entries, idx0)
    IN  IF idx >= Len(entries)
        THEN [refBase |-> "N", isMismatch |-> TRUE, hasMD |-> FALSE,
              mdIndex |-> idx, mdSubPos |-> sub, err |-> "", warn |-> "MD ended during M/=/X"]
        ELSE LET e == EntryAt(entries, idx)
             IN  IF e.IsDel
                 THEN [refBase |-> "N", isMismatch |-> FALSE, hasMD |-> TRUE,
                       mdIndex |-> idx, mdSubPos |-> sub,
                       err |-> "MD tag indicates deletion during CIGAR M/=/X", warn |-> ""]
                 ELSE IF e.Num > 0
                 THEN [refBase |-> readBase, isMismatch |-> FALSE, hasMD |-> TRUE,
                       mdIndex |-> IF sub + 1 = e.Num THEN idx + 1 ELSE idx,
                       mdSubPos |-> sub + 1,
                       err |-> "", warn |-> ""]
                 ELSE [refBase |-> IF Len(e.Changes) # 1 THEN "N" ELSE e.Changes[1],
                       isMismatch |-> TRUE, hasMD |-> TRUE,
                       mdIndex |-> idx + 1, mdSubPos |-> 0, err |-> "",
                       warn |-> IF Len(e.Changes) # 1 THEN "Invalid MD mismatch entry" ELSE ""]

\* One M/=/X position while hasMD (lines 385-430): the reference base, the
\* mismatch status and the MD cursor after it.
AlignedMD(entries, idx0, sub, readBase) ==
    LET idx == SkipPlaceholders(entries, idx0)
    IN  IF idx >= Len(entries)
        THEN [refBase |-> "N", isMismatch |-> TRUE, hasMD |-> FALSE,
              mdIndex |-> idx, mdSubPos |-> sub, err |-> "", warn |-> "MD ended during M/=/X"]
        ELSE LET e == EntryAt(entries, idx)
             IN  IF e.IsDel
                 THEN [refBase |-> "N", isMismatch |-> FALSE, hasMD |-> TRUE,
                       mdIndex |-> idx, mdSubPos |-> sub,
                       err |-> "MD tag indicates deletion during CIGAR M/=/X", warn |-> ""]
                 ELSE IF e.Num > 0
                 THEN [refBase |-> readBase, isMismatch |-> FALSE, hasMD |-> TRUE,
                       mdIndex |-> IF sub + 1 = e.Num THEN idx + 1 ELSE idx,
                       mdSubPos |-> IF sub + 1 = e.Num THEN 0 ELSE sub + 1,
                       err |-> "", warn |-> ""]
                 ELSE [refBase |-> IF Len(e.Changes) # 1 THEN "N" ELSE e.Changes[1],
                       isMismatch |-> TRUE, hasMD |-> TRUE,
                       mdIndex |-> idx + 1, mdSubPos |-> 0, err |-> "",
                       warn |-> IF Len(e.Changes) # 1 THEN "Invalid MD mismatch entry" ELSE ""]

\* One M/=/X position without MD (lines 431-440).
AlignedNoMD(opType, readBase, idx, sub) ==
    [refBase |-> IF opType = "=" THEN readBase ELSE "N",
     isMismatch |-> opType # "=", hasMD |-> FALSE,
     mdIndex |-> idx, mdSubPos |-> sub, err |-> "", warn |-> ""]

\* Mutant of Highlighting: the known mutation is highlighted like any mismatch
\* and keeps the space marker.
HighlightingNoKnown(isMismatch, refBase, readBase, useKnown, kRef, kAlt, mark) ==
    IF isMismatch
    THEN [marker |-> " ", hl |-> TRUE]
    ELSE [marker |-> "|", hl |-> useKnown /\ refBase = kRef]

\* Mutant of Highlighting: matches at the known reference base are not highlighted.
HighlightingPlainMatch(isMismatch, refBase, readBase, useKnown, kRef, kAlt, mark) ==
    IF isMismatch
    THEN IF useKnown
         THEN IF refBase = kRef /\ readBase = kAlt
              THEN [marker |-> mark, hl |-> FALSE]
              ELSE [marker |-> " ", hl |-> TRUE]
         ELSE [marker |-> " ", hl |-> TRUE]
    ELSE [marker |-> "|", hl |-> FALSE]

\* Mutant of Highlighting: a mismatch keeps the default marker '|'.
HighlightingPipe(isMismatch, refBase, readBase, useKnown, kRef, kAlt, mark) ==
    IF isMismatch
    THEN IF useKnown
         THEN IF refBase = kRef /\ readBase = kAlt
              THEN [marker |-> mark, hl |-> FALSE]
              ELSE [marker |-> "|", hl |-> TRUE]
         ELSE [marker |-> "|", hl |-> TRUE]
    ELSE [marker |-> "|", hl |-> useKnown /\ refBase = kRef]

\* The highlighting decision (lines 442-477): the marker and the flag that
\* is passed to applyColor for both the read base and the reference base.
Highlighting(isMismatch, refBase, readBase, useKnown, kRef, kAlt, mark) ==
    IF isMismatch
    THEN IF useKnown
         THEN IF refBase = kRef /\ readBase = kAlt
              THEN [marker |-> mark, hl |-> FALSE]
              ELSE [marker |-> " ", hl |-> TRUE]
         ELSE [marker |-> " ", hl |-> TRUE]
    ELSE [marker |-> "|", hl |-> useKnown /\ refBase = kRef]

\* min (lines 738-743)
min(a, b) == IF a < b THEN a ELSE b

---------------------------------------------------------------------------
(* samToPairwise: one action per step of the walk                          *)

NoRet == [ref |-> <<>>, aligned |-> <<>>, markers |-> <<>>, err |-> "", set |-> FALSE]

CurOp == cigarOps[opIdx]

InLoop == pc = "loop" /\ opIdx <= Len(cigarOps)

\* return "", "", "", fmt.Errorf(...)
ReturnErr(msg) ==
    /\ pc' = "error"
    /\ ret' = [ref |-> <<>>, aligned |-> <<>>, markers |-> <<>>, err |-> msg, set |-> TRUE]
    /\ UNCHANGED <<cigarOps, mdEntries, hasMD, mdParseErr, mdIndex, mdSubPos, seqPos,
                   opIdx, i, refBuilder, alignedSeqBuilder, markerBuilder, warnings, prov>>

\* The loop counters after the inner loop has reached position n of the operation.
LoopTo(n) ==
    IF n >= CurOp.Length
    THEN opIdx' = opIdx + 1 /\ i' = 0
    ELSE opIdx' = opIdx /\ i' = n

Column(opType, isMismatch, refBase, readBase) ==
    [op |-> opType, isMismatch |-> isMismatch, refBase |-> refBase, readBase |-> readBase]

\* Mutant of Call: after an MD error hasMD is not cleared.
CallKeepMD ==
    /\ pc = "call"
    /\ LET c == parseCigar(cigar)
           m == IF mdTag # <<>> THEN parseMDTag(mdTag) ELSE [entries |-> <<>>, err |-> ""]
       IN  IF c.err # ""
           THEN ReturnErr("error parsing CIGAR")
           ELSE /\ cigarOps' = c.ops
                /\ mdEntries' = m.entries
                /\ hasMD' = (mdTag # <<>>)
                /\ mdParseErr' = (m.err # "")
                /\ warnings' = IF m.err # "" THEN Append(warnings, "Error parsing MD tag")
                               ELSE warnings
                /\ pc' = "loop" /\ opIdx' = 1 /\ i' = 0
                /\ UNCHANGED <<mdIndex, mdSubPos, seqPos, refBuilder, alignedSeqBuilder,
                               markerBuilder, ret, prov>>
    /\ UNCHANGED <<parseVars, argVars, envVars>>

\* lines 341-365: both decoders are called; a CIGAR error is returned, an MD
\* error is a warning and MD is dropped.
Call ==
    /\ pc = "call"
    /\ LET c == parseCigar(cigar)
           m == IF mdTag # <<>> THEN parseMDTag(mdTag) ELSE [entries |-> <<>>, err |-> ""]
       IN  IF c.err # ""
           THEN ReturnErr("error parsing CIGAR")
           ELSE /\ cigarOps' = c.ops
                /\ mdEntries' = m.entries
                /\ hasMD' = (mdTag # <<>> /\ m.err = "")
                /\ mdParseErr' = (m.err # "")
                /\ warnings' = IF m.err # "" THEN Append(warnings, "Error parsing MD tag")
                               ELSE warnings
                /\ pc' = "loop" /\ opIdx' = 1 /\ i' = 0
                /\ UNCHANGED <<mdIndex, mdSubPos, seqPos, refBuilder, alignedSeqBuilder,
                               markerBuilder, ret, prov>>
    /\ UNCHANGED <<parseVars, argVars, envVars>>

\* case 'M', '=', 'X': one iteration of the loop over the positions (lines 373-485)
StepAligned ==
    /\ InLoop /\ CurOp.Op \in {"M", "=", "X"}
    /\ IF seqPos >= Len(seq)
       THEN ReturnErr("CIGAR M/=/X asks for a base beyond the sequence")
       ELSE LET readBase == seq[seqPos + 1]
                r == IF hasMD THEN AlignedMD(mdEntries, mdIndex, mdSubPos, readBase)
                     ELSE AlignedNoMD(CurOp.Op, readBase, mdIndex, mdSubPos)
                h == Highlighting(r.isMismatch, r.refBase, readBase, useKnownMutation,
                                  knownRefBase, knownAltBase, markChar)
            IN  IF r.err # ""
                THEN ReturnErr(r.err)
                ELSE /\ hasMD' = r.hasMD
                     /\ mdIndex' = r.mdIndex
                     /\ mdSubPos' = r.mdSubPos
                     /\ warnings' = IF r.warn # "" THEN Append(warnings, r.warn) ELSE warnings
                     /\ alignedSeqBuilder' = applyColor(alignedSeqBuilder, readBase, h.hl)
                     /\ refBuilder' = applyColor(refBuilder, r.refBase, h.hl)
                     /\ markerBuilder' = Append(markerBuilder, h.marker)
                     /\ prov' = Append(prov, Column(CurOp.Op, r.isMismatch, r.refBase, readBase))
                     /\ seqPos' = seqPos + 1
                     /\ LoopTo(i + 1)
                     /\ UNCHANGED <<cigarOps, mdEntries, mdParseErr, pc, ret>>
    /\ UNCHANGED <<parseVars, argVars, envVars>>

\* Mutant of StepI: the query cursor is not advanced by an inserted base.
StepINoAdvance ==
    /\ InLoop /\ CurOp.Op = "I"
    /\ IF seqPos >= Len(seq)
       THEN ReturnErr("CIGAR I asks for a base beyond the sequence")
       ELSE /\ alignedSeqBuilder' = applyColor(alignedSeqBuilder, seq[seqPos + 1], TRUE)
            /\ refBuilder' = applyColor(refBuilder, "-", TRUE)
            /\ markerBuilder' = Append(markerBuilder, " ")
            /\ prov' = Append(prov, Column("I", FALSE, "-", seq[seqPos + 1]))
            /\ seqPos' = seqPos
            /\ LoopTo(i + 1)
            /\ UNCHANGED <<cigarOps, mdEntries, hasMD, mdParseErr, mdIndex, mdSubPos,
                           pc, ret, warnings>>
    /\ UNCHANGED <<parseVars, argVars, envVars>>

\* case 'I': one iteration (lines 487-497)
StepI ==
    /\ InLoop /\ CurOp.Op = "I"
    /\ IF seqPos >= Len(seq)
       THEN ReturnErr("CIGAR I asks for a base beyond the sequence")
       ELSE /\ alignedSeqBuilder' = applyColor(alignedSeqBuilder, seq[seqPos + 1], TRUE)
            /\ refBuilder' = applyColor(refBuilder, "-", TRUE)
            /\ markerBuilder' = Append(markerBuilder, " ")
            /\ prov' = Append(prov, Column("I", FALSE, "-", seq[seqPos + 1]))
            /\ seqPos' = seqPos + 1
            /\ LoopTo(i + 1)
            /\ UNCHANGED <<cigarOps, mdEntries, hasMD, mdParseErr, mdIndex, mdSubPos,
                           pc, ret, warnings>>
    /\ UNCHANGED <<parseVars, argVars, envVars>>

\* n deleted positions appended to the three builders, bases taken from str
RECURSIVE AppendDeleted(_, _, _)
AppendDeleted(builder, str, hl) ==
    IF str = <<>> THEN builder
    ELSE AppendDeleted(applyColor(builder, str[1], hl), Tail(str), hl)

\* Mutant of DeletionChunk: the sub-position is not added to the index of the
\* deleted base (Changes[j] for Changes[mdSubPos+j]).
DeletionChunkNoSub(e, sub, need) ==
    LET basesToTake == min(need, Len(e.Changes) - sub)
    IN  [bases |-> SubSeq(e.Changes, 1, basesToTake),
         taken |-> basesToTake,
         consumed |-> (sub + basesToTake = Len(e.Changes))]

\* Mutant of DeletionChunk: the loop index is not added either (Changes[mdSubPos]
\* for Changes[mdSubPos+j]): the first available base is repeated.
DeletionChunkFirstBase(e, sub, need) ==
    LET basesToTake == min(need, Len(e.Changes) - sub)
    IN  [bases |-> Repeat(e.Changes[sub + 1], basesToTake),
         taken |-> basesToTake,
         consumed |-> (sub + basesToTake = Len(e.Changes))]

\* lines 538-554: what one Deletion entry gives to the operation
DeletionChunk(e, sub, need) ==
    LET basesToTake == min(need, Len(e.Changes) - sub)
    IN  [bases |-> SubSeq(e.Changes, sub + 1, sub + basesToTake),
         taken |-> basesToTake,
         consumed |-> (sub + basesToTake = Len(e.Changes))]

\* case 'D' without MD (lines 499-507): the whole operation
StepDNoMD ==
    /\ InLoop /\ CurOp.Op = "D" /\ ~hasMD
    /\ warnings' = IF ~mdParseErr THEN Append(warnings, "Deletion in CIGAR but no valid MD tag")
                   ELSE warnings
    /\ alignedSeqBuilder' = AppendDeleted(alignedSeqBuilder, Repeat("-", CurOp.Length), TRUE)
    /\ refBuilder' = AppendDeleted(refBuilder, Repeat("N", CurOp.Length), TRUE)
    /\ markerBuilder' = markerBuilder \o Repeat(" ", CurOp.Length)
    /\ prov' = prov \o Repeat(Column("D", FALSE, "N", "-"), CurOp.Length)
    /\ LoopTo(CurOp.Length)
    /\ UNCHANGED <<cigarOps, mdEntries, hasMD, mdParseErr, mdIndex, mdSubPos, seqPos, pc, ret>>
    /\ UNCHANGED <<parseVars, argVars, envVars>>

\* case 'D' with MD (lines 508-558): one iteration of the loop
\* "for deletedBasesFound < length"; i is deletedBasesFound.
StepD ==
    /\ InLoop /\ CurOp.Op = "D" /\ hasMD
    /\ LET idx == SkipPlaceholders(mdEntries, mdIndex)
           need == CurOp.Length - i
       IN  IF idx >= Len(mdEntries)
           THEN /\ warnings' = IF ~mdParseErr THEN Append(warnings, "MD ended during D")
                               ELSE warnings
                /\ alignedSeqBuilder' = AppendDeleted(alignedSeqBuilder, Repeat("-", need), TRUE)
                /\ refBuilder' = AppendDeleted(refBuilder, Repeat("N", need), TRUE)
                /\ markerBuilder' = markerBuilder \o Repeat(" ", need)
                /\ prov' = prov \o Repeat(Column("D", FALSE, "N", "-"), need)
                /\ hasMD' = FALSE
                /\ mdIndex' = idx
                /\ LoopTo(CurOp.Length)
                /\ UNCHANGED <<cigarOps, mdEntries, mdParseErr, mdSubPos, seqPos, pc, ret>>
           ELSE IF EntryAt(mdEntries, idx).IsDel
           THEN LET ch == DeletionChunk(EntryAt(mdEntries, idx), mdSubPos, need)
                IN  /\ alignedSeqBuilder' =
                           AppendDeleted(alignedSeqBuilder, Repeat("-", Len(ch.bases)), TRUE)
                    /\ refBuilder' = AppendDeleted(refBuilder, ch.bases, TRUE)
                    /\ markerBuilder' = markerBuilder \o Repeat(" ", Len(ch.bases))
                    /\ prov' = prov \o [k \in 1..Len(ch.bases) |->
                                           Column("D", FALSE, ch.bases[k], "-")]
                    /\ mdIndex' = IF ch.consumed THEN idx + 1 ELSE idx
                    /\ mdSubPos' = IF ch.consumed THEN 0 ELSE mdSubPos + ch.taken
                    /\ LoopTo(i + ch.taken)
                    /\ UNCHANGED <<cigarOps, mdEntries, hasMD, mdParseErr, seqPos, pc, ret,
                                   warnings>>
           ELSE ReturnErr("MD tag indicates match/mismatch during CIGAR D")
    /\ UNCHANGED <<parseVars, argVars, envVars>>

\* Mutant of StepN: the threshold is compared with >= (length 20 is condensed).
StepNAtThreshold ==
    /\ InLoop /\ CurOp.Op = "N"
    /\ IF CurOp.Length >= minIntronCompressLength
       THEN LET middleStr == <<".", ".">> \o Itoa(CurOp.Length) \o <<"n", "t", ".", ".">>
                displayWidth == condensedNSEdgeLength * 2 + Len(middleStr)
            IN  /\ refBuilder' = refBuilder \o GreyRepeat("N", condensedNSEdgeLength)
                                   \o GreyString(middleStr)
                                   \o GreyRepeat("N", condensedNSEdgeLength)
                /\ alignedSeqBuilder' = alignedSeqBuilder
                                   \o GreyRepeat(".", condensedNSEdgeLength)
                                   \o GreyString(middleStr)
                                   \o GreyRepeat(".", condensedNSEdgeLength)
                /\ markerBuilder' = markerBuilder \o Repeat(" ", displayWidth)
                /\ prov' = prov \o Repeat(Column("N", FALSE, "N", "."), displayWidth)
       ELSE /\ alignedSeqBuilder' = AppendDeleted(alignedSeqBuilder, Repeat(".", CurOp.Length), FALSE)
            /\ refBuilder' = AppendDeleted(refBuilder, Repeat("N", CurOp.Length), FALSE)
            /\ markerBuilder' = markerBuilder \o Repeat(" ", CurOp.Length)
            /\ prov' = prov \o Repeat(Column("N", FALSE, "N", "."), CurOp.Length)
    /\ LoopTo(CurOp.Length)
    /\ UNCHANGED <<cigarOps, mdEntries, hasMD, mdParseErr, mdIndex, mdSubPos, seqPos,
                   pc, ret, warnings>>
    /\ UNCHANGED <<parseVars, argVars, envVars>>

\* Mutant of StepN: the marker width of a condensed segment leaves out the
\* two edges (displayWidth := len(middleStr)).
StepNNarrowMarkers ==
    /\ InLoop /\ CurOp.Op = "N"
    /\ IF CurOp.Length > minIntronCompressLength
       THEN LET middleStr == <<".", ".">> \o Itoa(CurOp.Length) \o <<"n", "t", ".", ".">>
                displayWidth == Len(middleStr)
            IN  /\ refBuilder' = refBuilder \o GreyRepeat("N", condensedNSEdgeLength)
                                   \o GreyString(middleStr)
                                   \o GreyRepeat("N", condensedNSEdgeLength)
                /\ alignedSeqBuilder' = alignedSeqBuilder
                                   \o GreyRepeat(".", condensedNSEdgeLength)
                                   \o GreyString(middleStr)
                                   \o GreyRepeat(".", condensedNSEdgeLength)
                /\ markerBuilder' = markerBuilder \o Repeat(" ", displayWidth)
                /\ prov' = prov \o Repeat(Column("N", FALSE, "N", "."), displayWidth)
       ELSE /\ alignedSeqBuilder' = AppendDeleted(alignedSeqBuilder, Repeat(".", CurOp.Length), FALSE)
            /\ refBuilder' = AppendDeleted(refBuilder, Repeat("N", CurOp.Length), FALSE)
            /\ markerBuilder' = markerBuilder \o Repeat(" ", CurOp.Length)
            /\ prov' = prov \o Repeat(Column("N", FALSE, "N", "."), CurOp.Length)
    /\ LoopTo(CurOp.Length)
    /\ UNCHANGED <<cigarOps, mdEntries, hasMD, mdParseErr, mdIndex, mdSubPos, seqPos,
                   pc, ret, warnings>>
    /\ UNCHANGED <<parseVars, argVars, envVars>>

\* case 'N' (lines 560-589): the whole operation
StepN ==
    /\ InLoop /\ CurOp.Op = "N"
    /\ IF CurOp.Length > minIntronCompressLength
       THEN LET middleStr == <<".", ".">> \o Itoa(CurOp.Length) \o <<"n", "t", ".", ".">>
                displayWidth == condensedNSEdgeLength * 2 + Len(middleStr)
            IN  /\ refBuilder' = refBuilder \o GreyRepeat("N", condensedNSEdgeLength)
                                   \o GreyString(middleStr)
                                   \o GreyRepeat("N", condensedNSEdgeLength)
                /\ alignedSeqBuilder' = alignedSeqBuilder
                                   \o GreyRepeat(".", condensedNSEdgeLength)
                                   \o GreyString(middleStr)
                                   \o GreyRepeat(".", condensedNSEdgeLength)
                /\ markerBuilder' = markerBuilder \o Repeat(" ", displayWidth)
                /\ prov' = prov \o Repeat(Column("N", FALSE, "N", "."), displayWidth)
       ELSE /\ alignedSeqBuilder' = AppendDeleted(alignedSeqBuilder, Repeat(".", CurOp.Length), FALSE)
            /\ refBuilder' = AppendDeleted(refBuilder, Repeat("N", CurOp.Length), FALSE)
            /\ markerBuilder' = markerBuilder \o Repeat(" ", CurOp.Length)
            /\ prov' = prov \o Repeat(Column("N", FALSE, "N", "."), CurOp.Length)
    /\ LoopTo(CurOp.Length)
    /\ UNCHANGED <<cigarOps, mdEntries, hasMD, mdParseErr, mdIndex, mdSubPos, seqPos,
                   pc, ret, warnings>>
    /\ UNCHANGED <<parseVars, argVars, envVars>>

\* Mutant of StepS: the check of seqPos against len(seq) is left out.
StepSNoCheck ==
    /\ InLoop /\ CurOp.Op = "S"
    /\ LET readBase == IF seqPos < Len(seq) THEN seq[seqPos + 1] ELSE ""
       IN  /\ alignedSeqBuilder' = applyColor(alignedSeqBuilder, readBase, TRUE)
           /\ refBuilder' = applyColor(refBuilder, ".", FALSE)
           /\ markerBuilder' = Append(markerBuilder, " ")
           /\ prov' = Append(prov, Column("S", FALSE, ".", readBase))
    /\ seqPos' = seqPos + 1
    /\ LoopTo(i + 1)
    /\ UNCHANGED <<cigarOps, mdEntries, hasMD, mdParseErr, mdIndex, mdSubPos,
                   pc, ret, warnings>>
    /\ UNCHANGED <<parseVars, argVars, envVars>>

\* case 'S': one iteration (lines 590-600)
StepS ==
    /\ InLoop /\ CurOp.Op = "S"
    /\ IF seqPos >= Len(seq)
       THEN ReturnErr("CIGAR S asks for a base beyond the sequence")
       ELSE /\ alignedSeqBuilder' = applyColor(alignedSeqBuilder, seq[seqPos + 1], TRUE)
            /\ refBuilder' = applyColor(refBuilder, ".", FALSE)
            /\ markerBuilder' = Append(markerBuilder, " ")
            /\ prov' = Append(prov, Column("S", FALSE, ".", seq[seqPos + 1]))
            /\ seqPos' = seqPos + 1
            /\ LoopTo(i + 1)
            /\ UNCHANGED <<cigarOps, mdEntries, hasMD, mdParseErr, mdIndex, mdSubPos,
                           pc, ret, warnings>>
    /\ UNCHANGED <<parseVars, argVars, envVars>>

\* case 'H': continue (lines 601-603)
StepH ==
    /\ InLoop /\ CurOp.Op = "H"
    /\ LoopTo(CurOp.Length)
    /\ UNCHANGED <<cigarOps, mdEntries, hasMD, mdParseErr, mdIndex, mdSubPos, seqPos,
                   refBuilder, alignedSeqBuilder, markerBuilder, pc, ret, warnings, prov>>
    /\ UNCHANGED <<parseVars, argVars, envVars>>

\* Mutant of StepP: padding is taken to consume the query (seqPos advances).
StepPConsumes ==
    /\ InLoop /\ CurOp.Op = "P"
    /\ alignedSeqBuilder' = AppendDeleted(alignedSeqBuilder, Repeat("*", CurOp.Length), TRUE)
    /\ refBuilder' = AppendDeleted(refBuilder, Repeat("*", CurOp.Length), TRUE)
    /\ markerBuilder' = markerBuilder \o Repeat(" ", CurOp.Length)
    /\ prov' = prov \o Repeat(Column("P", FALSE, "*", "*"), CurOp.Length)
    /\ seqPos' = seqPos + CurOp.Length
    /\ LoopTo(CurOp.Length)
    /\ UNCHANGED <<cigarOps, mdEntries, hasMD, mdParseErr, mdIndex, mdSubPos,
                   pc, ret, warnings>>
    /\ UNCHANGED <<parseVars, argVars, envVars>>

\* case 'P': the whole operation (lines 604-609)
StepP ==
    /\ InLoop /\ CurOp.Op = "P"
    /\ alignedSeqBuilder' = AppendDeleted(alignedSeqBuilder, Repeat("*", CurOp.Length), TRUE)
    /\ refBuilder' = AppendDeleted(refBuilder, Repeat("*", CurOp.Length), TRUE)
    /\ markerBuilder' = markerBuilder \o Repeat(" ", CurOp.Length)
    /\ prov' = prov \o Repeat(Column("P", FALSE, "*", "*"), CurOp.Length)
    /\ LoopTo(CurOp.Length)
    /\ UNCHANGED <<cigarOps, mdEntries, hasMD, mdParseErr, mdIndex, mdSubPos, seqPos,
                   pc, ret, warnings>>
    /\ UNCHANGED <<parseVars, argVars, envVars>>

\* The case labels of the switch on opType (lines 373-604); any other
\* operation takes the default branch, "unsupported CIGAR operation".
SwitchCases == {"M", "=", "X", "I", "D", "N", "S", "H", "P"}

RECURSIVE ExpectedSeqLen(_)
\* lines 616-621
ExpectedSeqLen(ops) ==
    IF ops = <<>> THEN 0
    ELSE (IF ops[1].Op \in {"M", "I", "S", "=", "X"} THEN ops[1].Length ELSE 0)
         + ExpectedSeqLen(Tail(ops))

\* lines 615-629: the final check and the return of the three tracks
Finish ==
    /\ pc = "loop" /\ opIdx > Len(cigarOps)
    /\ warnings' = IF seqPos # ExpectedSeqLen(cigarOps) /\ Len(seq) > 0
                   THEN Append(warnings, "CIGAR/SEQ inconsistency")
                   ELSE warnings
    /\ ret' = [ref |-> refBuilder, aligned |-> alignedSeqBuilder,
               markers |-> markerBuilder, err |-> "", set |-> TRUE]
    /\ pc' = "done"
    /\ UNCHANGED <<cigarOps, mdEntries, hasMD, mdParseErr, mdIndex, mdSubPos, seqPos,
                   opIdx, i, refBuilder, alignedSeqBuilder, markerBuilder, prov>>
    /\ UNCHANGED <<parseVars, argVars, envVars>>

---------------------------------------------------------------------------
(* Inputs                                                                  *)

RECURSIVE Concat(_)
Concat(ss) == IF ss = <<>> THEN <<>> ELSE ss[1] \o Concat(Tail(ss))

\* ---- bounds
MaxStrLen == 4      \* length of the strings handed to the decoders alone
LongRun == 20       \* length of a digit run that does not fit an int
MaxOps == 2         \* CIGAR operations of a generic record
MaxMdTokens == 2    \* MD tokens of a generic record
MaxRun == 2         \* run lengths (operation lengths, match counts)

\* ---- the decoders alone
CigarAlphabet == {"0", "1", "5", "M", "D", "*", "Z"}
MDAlphabet == {"0", "1", "5", "A", "C", "^", "*"}

LongDigits == Repeat("9", LongRun)

\* ---- records for samToPairwise
NulByte == ""       \* the zero value of knownRefBase and knownAltBase

NoMutation == [use |-> FALSE, ref |-> NulByte, alt |-> NulByte, mark |-> "."]

Mutation(mark) == [use |-> TRUE, ref |-> "C", alt |-> "T", mark |-> mark]

\* -m 'N>T' -l '|': the known reference base is the unknown-base placeholder.
UnknownRefMutation == [use |-> TRUE, ref |-> "N", alt |-> "T", mark |-> "|"]

Configs == {NoMutation, Mutation("."), Mutation("|"), UnknownRefMutation}

SeqPattern == <<"T", "C", "A">>

\* A read of n bases: the pattern repeated, starting at offset r.
Read(r, n) == [k \in 1..n |-> SeqPattern[((k - 1 + r) % 3) + 1]]

Token(n, kind) == Itoa(n) \o <<kind>>

OpTokens(kinds) == {Token(len, kind) : len \in {1, MaxRun}, kind \in kinds}

MDTokens ==
    {<<"0">>, <<"1">>, Itoa(MaxRun), <<"A">>, <<"C">>, <<"^", "C">>, <<"^", "A", "G">>}

MatchTokens == {<<"0">>, <<"1">>, Itoa(MaxRun), <<"A">>, <<"C">>}

\* Deleted reference bases: the strings over {A, G} of 1..MaxRun bases.
DelBases == UNION {[1..n -> {"A", "G"}] : n \in 1..MaxRun}

\* The number of read bases a CIGAR string asks for.
QueryNeed(str) == ExpectedSeqLen(parseCigar(str).ops)

\* A read whose length differs by d from what the CIGAR asks for.
ReadFor(r, c, d) ==
    LET n == QueryNeed(c) + d IN Read(r, IF n < 0 THEN 0 ELSE n)

Args(s, c, m, cfg) ==
    /\ seq = s /\ cigar = c /\ mdTag = m
    /\ useKnownMutation = cfg.use /\ knownRefBase = cfg.ref
    /\ knownAltBase = cfg.alt /\ markChar = cfg.mark

\* Every operation kind; MD absent or one long match run; the read as long
\* as the CIGAR asks for, one base shorter, or one base longer.
StructInputs ==
    \E n \in 0..MaxOps : \E t \in [1..n -> OpTokens(CigarOpChars)] :
    \E m \in {<<>>, <<"9">>}, d \in {-1, 0, 1} :
        Args(ReadFor(0, Concat(t), d), Concat(t), m, Mutation("."))

\* The operations that move the MD cursor, and I, against every MD string
\* of a few tokens (well formed or not, consistent with the CIGAR or not).
CursorInputs ==
    \E n \in 0..MaxOps : \E t \in [1..n -> OpTokens({"M", "D", "I"})] :
    \E k \in 0..MaxMdTokens : \E u \in [1..k -> MDTokens] :
        Args(ReadFor(0, Concat(t), 0), Concat(t), Concat(u), Mutation("."))

\* One M, = or X operation against every MD string of match counts and
\* mismatch letters, every read offset and every highlight configuration.
HighlightInputs ==
    \E r \in 0..2, n \in 1..MaxRun, kind \in {"M", "=", "X"}, cfg \in Configs :
    \E k \in 0..MaxMdTokens : \E u \in [1..k -> MatchTokens] :
        Args(Read(r, n), Token(n, kind), Concat(u), cfg)

\* CIGAR nM with MD n and a read of n bases.
AllMatchInputs ==
    \E r \in 0..2, n \in 1..(MaxRun + 1), cfg \in Configs :
        Args(Read(r, n), Token(n, "M"), Itoa(n), cfg)

\* CIGAR (k+1+m)M with MD k B m and a read of k+1+m bases.
OneMismatchInputs ==
    \E r \in 0..2, k \in 0..MaxRun, m \in 0..MaxRun, b \in {"A", "C", "N"}, cfg \in Configs :
        Args(Read(r, k + 1 + m), Token(k + 1 + m, "M"), Itoa(k) \o <<b>> \o Itoa(m), cfg)

\* CIGAR aM bD cM with MD a ^B1..Bb c.
DeletionInputs ==
    \E a \in 1..MaxRun, c \in 1..MaxRun, bs \in DelBases, cfg \in {NoMutation, Mutation(".")} :
        Args(Read(0, a + c), Token(a, "M") \o Token(Len(bs), "D") \o Token(c, "M"),
             Itoa(a) \o <<"^">> \o bs \o Itoa(c), cfg)

\* One Deletion entry consumed by two D operations around an I, and one D
\* operation spanning two Deletion entries, adjacent or around a "0".
SplitDeletionInputs ==
    \E x \in DelBases, y \in DelBases :
        \/ Args(Read(0, 1), Token(Len(x), "D") \o Token(1, "I") \o Token(Len(y), "D"),
                <<"^">> \o x \o y, Mutation("."))
        \/ \E z \in {<<>>, <<"0">>} :
              Args(<<>>, Token(Len(x) + Len(y), "D"),
                   <<"^">> \o x \o z \o <<"^">> \o y, Mutation("."))

\* The lengths of N operations: around the threshold, and of two and three
\* digits.
IntronLengths ==
    {1, minIntronCompressLength - 5, minIntronCompressLength,
     minIntronCompressLength + 1, minIntronCompressLength + 5, 99, 100, 101}

\* CIGAR 1M LN 1M, without MD or with MD 2.
IntronInputs ==
    \E len \in IntronLengths, m \in {<<>>, <<"2">>}, cfg \in {NoMutation, Mutation(".")} :
        Args(Read(0, 2), Token(1, "M") \o Token(len, "N") \o Token(1, "M"), m, cfg)

\* MD strings x z y with z empty or "0", x empty, a mismatch or a deletion and
\* y a mismatch with the count after it, a match count or a deletion, against
\* the CIGAR strings of M, = and D operations.
ZeroInputs ==
    \E x \in {<<>>, <<"A">>, <<"^", "C">>}, z \in {<<>>, <<"0">>},
       y \in {<<"A", "1">>, <<"1">>, <<"^", "G">>} :
    \E n \in 1..MaxOps : \E t \in [1..n -> OpTokens({"M", "=", "D"})] :
        Args(ReadFor(0, Concat(t), 0), Concat(t), x \o z \o y, Mutation("."))

\* Records whose CIGAR string is rejected.
BadCigarInputs ==
    \E c \in {<<"M">>, <<"0", "M">>, <<"1">>, <<"1", "Z">>} :
        Args(Read(0, 1), c, <<"1">>, NoMutation)

---------------------------------------------------------------------------
(* Specifications                                                          *)

NoResult == [ops |-> <<>>, entries |-> <<>>, err |-> ""]

\* Nothing has been counted: the signal goroutine has not written.
NotSet == [set |-> FALSE, scans |-> 0, blocks |-> 0]

\* No goroutine is suspended.
NoFrame == <<>>

ParseIdle ==
    pKind = "none" /\ pInput = <<>> /\ pResult = NoResult /\ pDone = FALSE

WalkStart ==
    /\ cigarOps = <<>> /\ mdEntries = <<>> /\ hasMD = FALSE /\ mdParseErr = FALSE
    /\ mdIndex = 0 /\ mdSubPos = 0 /\ seqPos = 0 /\ opIdx = 1 /\ i = 0
    /\ refBuilder = <<>> /\ alignedSeqBuilder = <<>> /\ markerBuilder = <<>>
    /\ ret = NoRet /\ warnings = <<>> /\ prov = <<>>

\* The driver has not been started.
DriverIdle ==
    /\ lines = <<>> /\ filterForward = FALSE /\ filterReverse = FALSE
    /\ scanned = 0 /\ scanErr = FALSE /\ dpc = "off"
    /\ continueProcessing = TRUE /\ interruptChan = "empty"
    /\ mdTagValue = <<>> /\ stdout = <<>> /\ stderr = <<>>
    /\ alone = <<>> /\ afterSet = NotSet

\* There is no second goroutine.
ConcIdle == running = 0 /\ other = NoFrame

\* The worker pool has not been started.
PoolIdle ==
    /\ simple = FALSE /\ files = <<>> /\ numWorkers = 0
    /\ jobs = <<>> /\ jobsClosed = FALSE
    /\ resultChannel = <<>> /\ resultClosed = FALSE
    /\ wg = 0 /\ mpc = "off" /\ fileIdx = 0
    /\ workers = EmptyBag /\ waiter = "off"
    /\ results = <<>> /\ fault = ""

EnvIdle == DriverIdle /\ ConcIdle /\ PoolIdle

\* One call of samToPairwise on a record.
Init ==
    /\ ParseIdle
    /\ \/ StructInputs
       \/ CursorInputs
       \/ HighlightInputs
       \/ AllMatchInputs
       \/ OneMismatchInputs
       \/ DeletionInputs
       \/ SplitDeletionInputs
       \/ BadCigarInputs
       \/ IntronInputs
       \/ ZeroInputs
    /\ WalkStart /\ pc = "call"
    /\ EnvIdle

Next ==
    \/ Call
    \/ StepAligned
    \/ StepI
    \/ StepDNoMD
    \/ StepD
    \/ StepN
    \/ StepS
    \/ StepH
    \/ StepP
    \/ Finish

Spec == Init /\ [][Next]_vars

\* The strings handed to a decoder alone.
ParseInputs ==
    \/ \E n \in 0..MaxStrLen : pKind = "cigar" /\ pInput \in [1..n -> CigarAlphabet]
    \/ pKind = "cigar" /\ pInput = LongDigits \o <<"M">>
    \/ \E n \in 0..MaxStrLen : pKind = "md" /\ pInput \in [1..n -> MDAlphabet]
    \/ pKind = "md" /\ pInput \in {LongDigits, <<"1", "A">> \o LongDigits,
                                   <<"^", "A">> \o LongDigits}

\* One call of a decoder on a string.
InitParse ==
    /\ ParseInputs
    /\ pResult = NoResult /\ pDone = FALSE
    /\ seq = <<>> /\ cigar = <<>> /\ mdTag = <<>>
    /\ useKnownMutation = FALSE /\ knownRefBase = NulByte /\ knownAltBase = NulByte
    /\ markChar = "."
    /\ WalkStart /\ pc = "idle"
    /\ EnvIdle

RunParseCigar ==
    /\ pKind = "cigar" /\ ~pDone
    /\ pResult' = [ops |-> parseCigar(pInput).ops, entries |-> <<>>,
                   err |-> parseCigar(pInput).err]
    /\ pDone' = TRUE
    /\ UNCHANGED <<pKind, pInput, argVars, walkVars, envVars>>

RunParseMD ==
    /\ pKind = "md" /\ ~pDone
    /\ pResult' = [ops |-> <<>>, entries |-> parseMDTag(pInput).entries,
                   err |-> parseMDTag(pInput).err]
    /\ pDone' = TRUE
    /\ UNCHANGED <<pKind, pInput, argVars, walkVars, envVars>>

NextParse == RunParseCigar \/ RunParseMD

SpecParse == InitParse /\ [][NextParse]_vars

---------------------------------------------------------------------------
(* Properties of the decoders (checked under SpecParse)                    *)

CigarReturned == pKind = "cigar" /\ pDone
MDReturned == pKind = "md" /\ pDone

\* A digit run of the string starts with a superfluous "0".
HasLeadingZero(str) ==
    \E k \in 1..(Len(str) - 1) :
        str[k] = "0" /\ IsDigit(str[k + 1]) /\ (k = 1 \/ ~IsDigit(str[k - 1]))

\* The text of one decoded MD entry: the digits of Num for a MatchRun, the
\* base for a Mismatch, '^' and the bases for a Deletion.
EntryText(e) ==
    IF e.IsDel THEN <<"^">> \o e.Changes
    ELSE IF Len(e.Changes) > 0 THEN e.Changes
    ELSE Itoa(e.Num)

EntriesText(entries) == Concat([k \in 1..Len(entries) |-> EntryText(entries[k])])

\* C1 as stated: every accepted MD string is the concatenation of the texts
\* of its decoded entries.
C1_RoundTripAll ==
    MDReturned /\ pResult.err = "" => EntriesText(pResult.entries) = pInput

\* C1 (amended): every accepted MD string none of whose digit runs has a
\* superfluous leading zero is the concatenation, in order, of the texts of
\* its decoded entries.
C1_RoundTrip ==
    MDReturned /\ pResult.err = "" /\ ~HasLeadingZero(pInput)
        => EntriesText(pResult.entries) = pInput

\* An accepted MD string with a match run, a mismatch and a deletion.
C1_Witness ==
    /\ MDReturned /\ pResult.err = "" /\ ~HasLeadingZero(pInput)
    /\ \E e \in {pResult.entries[k] : k \in 1..Len(pResult.entries)} : e.IsDel
    /\ \E e \in {pResult.entries[k] : k \in 1..Len(pResult.entries)} :
          ~e.IsDel /\ Len(e.Changes) = 1
    /\ \E e \in {pResult.entries[k] : k \in 1..Len(pResult.entries)} :
          ~e.IsDel /\ Len(e.Changes) = 0
    /\ EntriesText(pResult.entries) = pInput

OpsText(ops) == Concat([k \in 1..Len(ops) |-> Itoa(ops[k].Length) \o <<ops[k].Op>>])

\* C2 as stated: every accepted CIGAR string is the concatenation of length
\* and operation character of its decoded operations.
C2_RoundTripAll ==
    CigarReturned /\ pResult.err = "" => OpsText(pResult.ops) = pInput

\* C2 (amended): every accepted CIGAR string other than "*" none of whose
\* lengths has a superfluous leading zero is the concatenation, in order, of
\* length and operation character of its decoded operations.
C2_RoundTrip ==
    CigarReturned /\ pResult.err = "" /\ pInput # <<"*">> /\ ~HasLeadingZero(pInput)
        => OpsText(pResult.ops) = pInput

\* An accepted CIGAR string of two operations.
C2_Witness ==
    /\ CigarReturned /\ pResult.err = "" /\ ~HasLeadingZero(pInput)
    /\ Len(pResult.ops) = 2 /\ pResult.ops[1].Op # pResult.ops[2].Op
    /\ OpsText(pResult.ops) = pInput

\* The digits right before position k of the string, as far as they go.
DigitRunBefore(str, k) ==
    LET j == CHOOSE j \in 1..k :
                 /\ \A m \in j..(k - 1) : IsDigit(str[m])
                 /\ (j = 1 \/ ~IsDigit(str[j - 1]))
    IN  SubSeq(str, j, k - 1)

OpWithoutLength(str) ==
    \E k \in 1..Len(str) : str[k] \in CigarOpChars /\ (k = 1 \/ ~IsDigit(str[k - 1]))

ZeroLength(str) ==
    \E k \in 2..Len(str) :
        /\ str[k] \in CigarOpChars /\ IsDigit(str[k - 1])
        /\ \A m \in 1..Len(DigitRunBefore(str, k)) : DigitRunBefore(str, k)[m] = "0"

TrailingDigits(str) == Len(str) > 0 /\ IsDigit(str[Len(str)])

ForeignChar(str) == \E k \in 1..Len(str) : ~IsDigit(str[k]) /\ str[k] \notin CigarOpChars

LengthOverflow(str) ==
    \E k \in 2..Len(str) :
        str[k] \in CigarOpChars /\ IsDigit(str[k - 1]) /\ ~AtoiOk(DigitRunBefore(str, k))

\* The positions of the operation characters, in order.
OpPositions(str) ==
    SelectSeq([k \in 1..Len(str) |-> k], LAMBDA k : str[k] \in CigarOpChars)

\* The (length, kind) pairs read off the string.
PairsOf(str) ==
    [n \in 1..Len(OpPositions(str)) |->
        [Length |-> Atoi(DigitRunBefore(str, OpPositions(str)[n])),
         Op |-> str[OpPositions(str)[n]]]]

CigarOutcome(str, res, malformed) ==
    /\ str \in {<<>>, <<"*">>} => res.err = "" /\ res.ops = <<>>
    /\ str \notin {<<>>, <<"*">>} =>
          /\ res.err # "" <=> malformed
          /\ res.err = "" => res.ops = PairsOf(str)
    /\ \A k \in 1..Len(res.ops) : res.ops[k].Op \in SwitchCases

InDeletion(str, k) ==
    \E j \in 1..(k - 1) : str[j] = "^" /\ \A m \in (j + 1)..k : IsLetter(str[m])

TwoLetters(str) ==
    \E k \in 1..(Len(str) - 1) :
        IsLetter(str[k]) /\ IsLetter(str[k + 1]) /\ ~InDeletion(str, k + 1)

EndsAfterMismatch(str) ==
    Len(str) > 0 /\ IsLetter(str[Len(str)]) /\ ~InDeletion(str, Len(str))

CaretWithoutBase(str) ==
    \E k \in 1..Len(str) : str[k] = "^" /\ (k = Len(str) \/ ~IsLetter(str[k + 1]))

BuiltFromTokens(str) ==
    \A k \in 1..Len(str) : IsDigit(str[k]) \/ IsLetter(str[k]) \/ str[k] = "^"

CountOverflow(str) ==
    \E j \in 1..Len(str) : \E k \in j..Len(str) :
        /\ \A m \in j..k : IsDigit(str[m])
        /\ ~AtoiOk(SubSeq(str, j, k))

MDRejectable(str) == TwoLetters(str) \/ EndsAfterMismatch(str) \/ CaretWithoutBase(str)

MDOutcome(str, res, excluded) ==
    /\ MDRejectable(str) => (res.err # "" /\ res.entries = <<>>)
    /\ str = <<>> => (res.err = "" /\ res.entries = <<>>)
    /\ (BuiltFromTokens(str) /\ ~excluded /\ ~MDRejectable(str)) => res.err = ""

---------------------------------------------------------------------------
(* Properties of samToPairwise (checked under Spec).  A position is        *)
(* "highlighted" when it was written with shouldHighlight set.             *)

AlignedOps == {"M", "=", "X"}

\* CIGAR nM, MD n, and a read of n bases (n >= 1: the CIGAR decoder takes
\* no zero length).
AllMatchRecord ==
    Len(seq) >= 1 /\ cigar = Token(Len(seq), "M") /\ mdTag = Itoa(Len(seq))

AllMatchTracks ==
    /\ ret.err = ""
    /\ ret.markers = Repeat("|", Len(seq))
    /\ Visible(ret.ref) = seq
    /\ Visible(ret.aligned) = seq

\* C5 as stated: all match, and no position of either track is highlighted
\* under any highlight configuration.
C5_NeverHighlighted ==
    AllMatchRecord =>
        /\ pc # "error"
        /\ pc = "done" =>
              /\ AllMatchTracks
              /\ \A k \in 1..Len(seq) : ~ret.ref[k].hl /\ ~ret.aligned[k].hl

\* C5 (amended): for CIGAR nM with n = len(seq) and MD n, every position is
\* a match: the marker track is n '|', the reference track equals the read,
\* and a position is highlighted (on both tracks) exactly when a known
\* mutation is configured and the base there is its reference base; so
\* nothing is highlighted when no known mutation is configured.
C5_AllMatch ==
    AllMatchRecord =>
        /\ pc # "error"
        /\ pc = "done" =>
              /\ AllMatchTracks
              /\ \A k \in 1..Len(seq) :
                    /\ ret.ref[k].hl = (useKnownMutation /\ seq[k] = knownRefBase)
                    /\ ret.aligned[k].hl = (useKnownMutation /\ seq[k] = knownRefBase)

\* An all-match record is done, under a known mutation whose reference base
\* the read has at one position and not at another.
C5_Witness ==
    /\ AllMatchRecord /\ pc = "done" /\ useKnownMutation
    /\ \E k \in 1..Len(seq) : seq[k] = knownRefBase /\ ret.ref[k].hl
    /\ \E k \in 1..Len(seq) : seq[k] # knownRefBase /\ ~ret.ref[k].hl

\* CIGAR (k+1+m)M, MD k B m, and a read of k+1+m bases.
OneMismatchRecord(k, b, m) ==
    /\ Len(seq) = k + 1 + m
    /\ cigar = Token(k + 1 + m, "M")
    /\ mdTag = Itoa(k) \o <<b>> \o Itoa(m)

\* C6: for MD k B m against CIGAR (k+1+m)M and a read of that length, position
\* k (0-based) is a mismatch with reference base B; when no known mutation
\* is configured its marker is ' ' and it is highlighted, and every other
\* position is an unhighlighted match with marker '|'.
C6_OneMismatch ==
    cigar = Token(Len(seq), "M") =>
        \A k \in 0..(Len(seq) - 1), b \in Letters :
            OneMismatchRecord(k, b, Len(seq) - 1 - k) =>
                /\ pc # "error"
                /\ pc = "done" =>
                      /\ ret.err = ""
                      /\ Len(ret.markers) = Len(seq)
                      /\ prov[k + 1].isMismatch /\ ret.ref[k + 1].ch = b
                      /\ ~useKnownMutation =>
                            /\ ret.markers[k + 1] = " "
                            /\ ret.ref[k + 1].hl /\ ret.aligned[k + 1].hl
                            /\ \A j \in (1..Len(seq)) \ {k + 1} :
                                  /\ ~prov[j].isMismatch
                                  /\ ret.markers[j] = "|"
                                  /\ ~ret.ref[j].hl /\ ~ret.aligned[j].hl
                                  /\ ret.ref[j].ch = seq[j]

\* Such a record is done without a known mutation, with matches on both
\* sides of the mismatch.
C6_Witness ==
    /\ pc = "done" /\ ~useKnownMutation
    /\ \E k \in 1..Len(seq), m \in 1..Len(seq), b \in Letters :
          OneMismatchRecord(k, b, m) /\ ret.ref[k + 1].ch = b /\ ret.markers[k + 1] = " "

Highlighted(j) == refBuilder[j].hl /\ alignedSeqBuilder[j].hl
Plain(j) == ~refBuilder[j].hl /\ ~alignedSeqBuilder[j].hl

\* Column j is a mismatch that is the configured known mutation.
KnownColumn(j) ==
    /\ prov[j].op \in AlignedOps /\ prov[j].isMismatch /\ useKnownMutation
    /\ prov[j].refBase = knownRefBase /\ prov[j].readBase = knownAltBase

MatchColumn(j) == prov[j].op \in AlignedOps /\ ~prov[j].isMismatch

\* C7: at every M/=/X position, with a known mutation (R, A): a mismatch
\* with reference R and query A is not highlighted and has the mark
\* character as marker; any other mismatch is highlighted; a match whose
\* reference is R is highlighted; any other match is not.  Without a known
\* mutation a position is highlighted exactly when it is a mismatch.
C7_Highlighting ==
    pc \in {"loop", "done"} =>
        /\ Len(prov) = Len(markerBuilder)
        /\ Len(prov) = Len(refBuilder) /\ Len(prov) = Len(alignedSeqBuilder)
        /\ \A j \in 1..Len(prov) : prov[j].op \in AlignedOps =>
              IF useKnownMutation
              THEN /\ KnownColumn(j) => Plain(j) /\ markerBuilder[j] = markChar
                   /\ (prov[j].isMismatch /\ ~KnownColumn(j)) => Highlighted(j)
                   /\ (~prov[j].isMismatch /\ prov[j].refBase = knownRefBase) => Highlighted(j)
                   /\ (~prov[j].isMismatch /\ prov[j].refBase # knownRefBase) => Plain(j)
              ELSE /\ prov[j].isMismatch => Highlighted(j)
                   /\ ~prov[j].isMismatch => Plain(j)

\* A walk with the known mutation at one position and a match of the known
\* reference base at another.
C7_Witness ==
    /\ pc = "done" /\ useKnownMutation
    /\ \E j \in 1..Len(prov) : KnownColumn(j) /\ Plain(j) /\ markerBuilder[j] = markChar
    /\ \E j \in 1..Len(prov) :
          MatchColumn(j) /\ prov[j].refBase = knownRefBase /\ Highlighted(j)

MarkersAsClaimed ==
    /\ Len(ret.markers) = Len(prov)
    /\ \A j \in 1..Len(prov) :
          /\ ret.markers[j] = "|" <=> MatchColumn(j)
          /\ ret.markers[j] = markChar <=> KnownColumn(j)
          /\ (~MatchColumn(j) /\ ~KnownColumn(j)) => ret.markers[j] = " "

\* C8 as stated: in every successful result, '|' exactly at the matches,
\* the mark character exactly at the known mutation, space elsewhere.
C8_MarkersAnyMark == pc = "done" => MarkersAsClaimed

\* C8 (amended): provided the configured mark character is neither '|' nor
\* a space, in every successful result a marker column is '|' exactly when
\* it comes from an M/=/X match, is the mark character exactly when it comes
\* from a mismatch that is the known mutation, and is a space in every other
\* column (other mismatches and all I, D, N, S, P columns).
C8_Markers == (pc = "done" /\ markChar \notin {"|", " "}) => MarkersAsClaimed

\* A result with a match, the known mutation and a column of an insertion.
C8_Witness ==
    /\ pc = "done" /\ markChar \notin {"|", " "}
    /\ \E j \in 1..Len(prov) : MatchColumn(j) /\ ret.markers[j] = "|"
    /\ \E j \in 1..Len(prov) : KnownColumn(j) /\ ret.markers[j] = markChar
    /\ \E j \in 1..Len(prov) : prov[j].op = "I" /\ ret.markers[j] = " "

\* CIGAR aM bD cM, MD a ^B1..Bb c, and a read of a+c bases.
DeletionRecord(a, bs, c) ==
    /\ a >= 1 /\ c >= 1 /\ Len(bs) >= 1 /\ \A k \in 1..Len(bs) : IsLetter(bs[k])
    /\ Len(seq) = a + c
    /\ cigar = Token(a, "M") \o Token(Len(bs), "D") \o Token(c, "M")
    /\ mdTag = Itoa(a) \o <<"^">> \o bs \o Itoa(c)

\* The parts of such a record, read off the decoded strings.
DeletionShape ==
    /\ Len(seq) >= 2 /\ \E k \in 1..Len(mdTag) : mdTag[k] = "^"
    /\ cigar # <<>> /\ cigar[Len(cigar)] = "M"
    /\ IsDigit(mdTag[1]) /\ IsDigit(mdTag[Len(mdTag)])
    /\ Cardinality({k \in 1..Len(cigar) : cigar[k] = "D"}) = 1
    /\ Len(parseCigar(cigar).ops) = 3
    /\ Len(parseMDTag(mdTag).entries) = 3
    /\ DeletionRecord(parseCigar(cigar).ops[1].Length,
                      parseMDTag(mdTag).entries[2].Changes,
                      parseCigar(cigar).ops[3].Length)

\* C9: for CIGAR aM bD cM with MD a ^B1..Bb c, the b deletion columns show
\* B1..Bb on the reference track, b '-' on the query track and b spaces on
\* the marker track, and the query cursor stays at a across the D operation
\* (the base after the deletion is seq[a]).
C9_Deletion ==
    DeletionShape =>
        LET a == parseCigar(cigar).ops[1].Length
            bs == parseMDTag(mdTag).entries[2].Changes
        IN  /\ pc # "error"
            /\ pc = "done" =>
                  /\ ret.err = ""
                  /\ SubSeq(Visible(ret.ref), a + 1, a + Len(bs)) = bs
                  /\ SubSeq(Visible(ret.aligned), a + 1, a + Len(bs)) = Repeat("-", Len(bs))
                  /\ SubSeq(ret.markers, a + 1, a + Len(bs)) = Repeat(" ", Len(bs))
                  /\ ret.aligned[a + Len(bs) + 1].ch = seq[a + 1]
            /\ (pc = "loop" /\ (opIdx = 2 \/ (opIdx = 3 /\ i = 0))) => seqPos = a

\* Such a record is done, with two different deleted bases.
C9_Witness ==
    /\ DeletionShape /\ pc = "done"
    /\ Len(parseMDTag(mdTag).entries[2].Changes) = 2
    /\ parseMDTag(mdTag).entries[2].Changes[1] # parseMDTag(mdTag).entries[2].Changes[2]
    /\ SubSeq(Visible(ret.ref), parseCigar(cigar).ops[1].Length + 1,
              parseCigar(cigar).ops[1].Length + 2) = parseMDTag(mdTag).entries[2].Changes

\* The reference characters of the D columns, in order.
DeletedRef ==
    LET cols == SelectSeq([j \in 1..Len(prov) |-> j], LAMBDA j : prov[j].op = "D")
    IN  [n \in 1..Len(cols) |-> refBuilder[cols[n]].ch]

RECURSIVE AllDeleted(_)
\* The bases of the Deletion entries, concatenated in order.
AllDeleted(entries) ==
    IF entries = <<>> THEN <<>>
    ELSE (IF entries[1].IsDel THEN entries[1].Changes ELSE <<>>) \o AllDeleted(Tail(entries))

\* The number of deleted bases the MD cursor has gone past.
DeletedConsumed ==
    Len(AllDeleted(SubSeq(mdEntries, 1, mdIndex)))
    + (IF mdIndex < Len(mdEntries) /\ EntryAt(mdEntries, mdIndex).IsDel THEN mdSubPos ELSE 0)

RECURSIVE DLength(_)
DLength(ops) ==
    IF ops = <<>> THEN 0
    ELSE (IF ops[1].Op = "D" THEN ops[1].Length ELSE 0) + DLength(Tail(ops))

\* The number of D positions the walk has gone past.
DPositionsDone ==
    DLength(SubSeq(cigarOps, 1, opIdx - 1))
    + (IF opIdx <= Len(cigarOps) /\ CurOp.Op = "D" THEN i ELSE 0)

\* C10: while MD is in use, the reference bases shown at the D positions
\* passed so far are the bases of the Deletion entries in order, up to
\* where the MD cursor stands, however D lengths and entry lengths are
\* partitioned: a D operation takes the rest of an entry begun by an
\* earlier D operation, and goes through several entries (and "0" counts
\* between them) within one operation.
C10_DeletedBases ==
    (pc \in {"loop", "done"} /\ hasMD) =>
        /\ Len(DeletedRef) = DPositionsDone
        /\ DeletedConsumed <= Len(AllDeleted(mdEntries))
        /\ DeletedRef = SubSeq(AllDeleted(mdEntries), 1, DeletedConsumed)

\* One Deletion entry of two different bases was consumed by two D
\* operations around an I.
C10_Witness ==
    /\ pc = "done" /\ hasMD
    /\ Len(cigarOps) = 3 /\ cigarOps[1].Op = "D" /\ cigarOps[2].Op = "I" /\ cigarOps[3].Op = "D"
    /\ Len(mdEntries) = 1 /\ mdEntries[1].IsDel
    /\ DeletedRef = mdEntries[1].Changes
    /\ DeletedRef[1] # DeletedRef[Len(DeletedRef)]

\* The next non-placeholder MD entry contradicts the kind of the position
\* about to be processed.
KindConflict ==
    /\ InLoop /\ hasMD
    /\ SkipPlaceholders(mdEntries, mdIndex) < Len(mdEntries)
    /\ LET e == EntryAt(mdEntries, SkipPlaceholders(mdEntries, mdIndex))
       IN  \/ CurOp.Op \in AlignedOps /\ e.IsDel
           \/ CurOp.Op = "D" /\ ~e.IsDel

Aborted ==
    /\ pc = "error" /\ ret.set /\ ret.err # ""
    /\ ret.ref = <<>> /\ ret.aligned = <<>> /\ ret.markers = <<>>

\* C11: while MD is in use, when the current non-placeholder MD entry is a
\* Deletion at an M/=/X position, or a MatchRun with remaining count or a
\* Mismatch at a D position, the step taken there returns an error and three
\* empty tracks (also when the Deletion entry was partly consumed by an
\* earlier D operation); no track is returned once an error is.
C11_Inconsistency ==
    [][ /\ KindConflict => Aborted'
        /\ pc' = "error" => Aborted' ]_vars

\* The walk was aborted at an M position by a Deletion entry that a D
\* operation before it had consumed in part.
C11_Witness ==
    /\ Aborted /\ hasMD /\ opIdx <= Len(cigarOps) /\ CurOp.Op \in AlignedOps
    /\ mdIndex < Len(mdEntries) /\ EntryAt(mdEntries, mdIndex).IsDel /\ mdSubPos > 0
    /\ \E j \in 1..Len(prov) : prov[j].op = "D"

\* The operations that read a base of seq.
ConsumingOps == {"M", "I", "S", "=", "X"}

\* The bases read from seq so far, in the order they were read.
BasesRead ==
    LET cols == SelectSeq([j \in 1..Len(prov) |-> j], LAMBDA j : prov[j].op \in ConsumingOps)
    IN  [n \in 1..Len(cols) |-> prov[cols[n]].readBase]

\* The CIGAR string decodes and asks for more bases than seq has.
TooShort == parseCigar(cigar).err = "" /\ QueryNeed(cigar) > Len(seq)

\* C12: when the lengths of the M, I, S, = and X operations add up to more
\* than len(seq), the call does not return tracks (it ends in an error) and
\* the walk cannot get past the last operation; at every step
\* 0 <= seqPos <= len(seq), and the bases read are seq[0..seqPos-1], each
\* read once, never one at an index >= len(seq).
C12_SequenceTooShort ==
    /\ 0 <= seqPos /\ seqPos <= Len(seq)
    /\ BasesRead = SubSeq(seq, 1, seqPos)
    /\ (pc = "done" \/ (pc = "loop" /\ opIdx > Len(cigarOps))) => ~TooShort

\* A walk that used up a non-empty seq and was aborted at the next
\* consuming position.
C12_Witness ==
    /\ TooShort /\ Aborted /\ Len(seq) >= 1 /\ seqPos = Len(seq)
    /\ opIdx <= Len(cigarOps) /\ CurOp.Op \in ConsumingOps
    /\ BasesRead = seq

\* The MD string is not empty and parseMDTag rejects it.
MDFailed == mdTag # <<>> /\ parseMDTag(mdTag).err # ""

RefConsumingOps == {"M", "=", "X", "D"}

\* C13 as stated: after an MD decoding error the call does not fail for it,
\* MD is not used, and every M, =, X and D column shows 'N' on the reference
\* track with a marker other than '|'.
C13_AllUnknown ==
    MDFailed =>
        /\ (parseCigar(cigar).err = "" /\ ~TooShort) => pc # "error"
        /\ pc \in {"loop", "done"} =>
              /\ ~hasMD
              /\ \A j \in 1..Len(prov) : prov[j].op \in RefConsumingOps =>
                    refBuilder[j].ch = "N" /\ markerBuilder[j] # "|"

\* C13 (amended): after an MD decoding error the call does not fail for it
\* and MD is treated as absent for the whole record: every M, X and D column
\* shows 'N' on the reference track and is not a match (its marker is a
\* space, or the mark character where an M or X column is the known mutation,
\* which takes 'N' as the known reference base); every '=' column is a match
\* whose reference base is the query base, with marker '|'.
C13_MalformedMD ==
    (pc \in {"loop", "done", "error"} /\ MDFailed) =>
        /\ (parseCigar(cigar).err = "" /\ ~TooShort) => pc # "error"
        /\ pc \in {"loop", "done"} =>
              /\ ~hasMD /\ mdParseErr
              /\ \A j \in 1..Len(prov) :
                    /\ prov[j].op \in {"M", "X"} =>
                          /\ refBuilder[j].ch = "N" /\ prov[j].isMismatch
                          /\ markerBuilder[j] = IF KnownColumn(j) THEN markChar ELSE " "
                    /\ prov[j].op = "D" =>
                          refBuilder[j].ch = "N" /\ markerBuilder[j] = " "
                    /\ prov[j].op = "=" =>
                          /\ refBuilder[j].ch = alignedSeqBuilder[j].ch
                          /\ ~prov[j].isMismatch /\ markerBuilder[j] = "|"

\* A record with a rejected MD string was rendered with an M column and a
\* D column.
C13_Witness ==
    /\ MDFailed /\ pc = "done" /\ ret.err = ""
    /\ \E j \in 1..Len(prov) : prov[j].op = "M" /\ ret.ref[j].ch = "N" /\ ret.markers[j] = " "
    /\ \E j \in 1..Len(prov) : prov[j].op = "D" /\ ret.ref[j].ch = "N"

\* No MD information is left for the position about to be processed: MD is
\* absent (or was dropped), or only placeholders remain before its end.
MDUnavailable == ~hasMD \/ SkipPlaceholders(mdEntries, mdIndex) >= Len(mdEntries)

\* Every reference cell written by the step shows 'N'.
NewRefUnknown ==
    \A j \in (Len(refBuilder) + 1)..Len(refBuilder') : refBuilder'[j].ch = "N"

\* C14: at an M/=/X or D position where MD is absent or exhausted (the
\* position where exhaustion is detected included) the step returns no
\* error; an M position gets reference 'N' and is a mismatch, an '='
\* position is a match whose reference base is the query base, a D operation
\* shows 'N' at each remaining deleted position; and once MD is unavailable
\* the MD cursor is not looked at or moved again.
C14_Fallback ==
    [][ (InLoop /\ MDUnavailable) =>
          /\ (CurOp.Op \in AlignedOps /\ seqPos < Len(seq)) =>
                /\ pc' = "loop" /\ Len(prov') = Len(prov) + 1
                /\ CurOp.Op = "M" =>
                      NewRefUnknown /\ prov'[Len(prov')].isMismatch
                /\ CurOp.Op = "=" =>
                      /\ refBuilder'[Len(refBuilder')].ch = seq[seqPos + 1]
                      /\ ~prov'[Len(prov')].isMismatch
          /\ CurOp.Op = "D" =>
                /\ pc' = "loop" /\ Len(prov') = Len(prov) + (CurOp.Length - i)
                /\ NewRefUnknown
          /\ ~hasMD => (~hasMD' /\ mdIndex' = mdIndex /\ mdSubPos' = mdSubPos) ]_vars

\* C15: every column of an X operation is treated as a mismatch, whether MD
\* is absent, exhausted or present with a match run there; its marker is
\* not '|' (unless '|' is the configured mark character itself).
C15_XIsMismatch ==
    pc \in {"loop", "done"} =>
        \A j \in 1..Len(prov) : prov[j].op = "X" =>
            /\ prov[j].isMismatch
            /\ markChar # "|" => markerBuilder[j] # "|"

\* What the step appended to each track.
NewRef == SubSeq(Visible(refBuilder'), Len(refBuilder) + 1, Len(refBuilder'))
NewAligned == SubSeq(Visible(alignedSeqBuilder'), Len(alignedSeqBuilder) + 1, Len(alignedSeqBuilder'))
NewMarkers == SubSeq(markerBuilder', Len(markerBuilder) + 1, Len(markerBuilder'))

\* An N operation of at most 20 positions: that many placeholder columns.
IntronColumns ==
    /\ NewRef = Repeat("N", CurOp.Length)
    /\ NewAligned = Repeat(".", CurOp.Length)
    /\ NewMarkers = Repeat(" ", CurOp.Length)

\* "..<L>nt.."
Annotation(len) == <<".", ".">> \o Itoa(len) \o <<"n", "t", ".", ".">>

\* The condensed segment of an N operation: edges around the annotation.
IntronCondensed ==
    /\ NewRef = Repeat("N", condensedNSEdgeLength) \o Annotation(CurOp.Length)
                    \o Repeat("N", condensedNSEdgeLength)
    /\ NewAligned = Repeat(".", condensedNSEdgeLength) \o Annotation(CurOp.Length)
                    \o Repeat(".", condensedNSEdgeLength)
    /\ NewMarkers = Repeat(" ", Len(NewRef))

\* The width of the condensed segment of the shortest condensed N operation.
FixedWidth == 2 * condensedNSEdgeLength + Len(Annotation(minIntronCompressLength + 1))

C17_EqualWidth ==
    /\ Len(Visible(refBuilder)) = Len(markerBuilder)
    /\ Len(Visible(alignedSeqBuilder)) = Len(markerBuilder)
    /\ pc = "done" =>
          /\ Len(Visible(ret.ref)) = Len(ret.markers)
          /\ Len(Visible(ret.aligned)) = Len(ret.markers)

\* A result with a condensed N segment between two aligned columns.
C17_Witness ==
    /\ pc = "done" /\ Len(ret.markers) > minIntronCompressLength
    /\ \E k \in 1..Len(cigarOps) :
          cigarOps[k].Op = "N" /\ cigarOps[k].Length > minIntronCompressLength
    /\ Len(ret.ref) = Len(ret.markers) /\ Len(ret.aligned) = Len(ret.markers)

\* What is written to stderr by the final consistency check (line 625).
InconsistencyWarning == "CIGAR/SEQ inconsistency"

\* C18: when the walk finishes and the lengths of the M, I, S, = and X
\* operations do not add up to len(seq), the inconsistency is reported as a
\* warning and the three tracks are still returned.
C18_WarnsOnMismatch ==
    (pc = "done" /\ ExpectedSeqLen(cigarOps) # Len(seq)) =>
        /\ ret.err = "" /\ ret.markers = markerBuilder
        /\ \E k \in 1..Len(warnings) : warnings[k] = InconsistencyWarning

\* The query cursor is where the operations gone through put it: the
\* lengths of the M, I, S, = and X operations before the current one, plus
\* the positions done of the current one when it is of those kinds.
SeqPosByOps ==
    seqPos = ExpectedSeqLen(SubSeq(cigarOps, 1, opIdx - 1))
             + (IF opIdx <= Len(cigarOps) /\ CurOp.Op \in ConsumingOps THEN i ELSE 0)

\* C19: a step of a D, N, H or P operation leaves seqPos unchanged; a step
\* of an I, S, N, H or P operation leaves the MD cursor (mdIndex, mdSubPos)
\* unchanged; a step of an H operation appends nothing to any track; and
\* each M, =, X, I and S operation gone through has advanced seqPos by
\* exactly its length.
C19_Frame ==
    [][ /\ (pc' \in {"loop", "done"} => SeqPosByOps')
        /\ InLoop =>
              /\ CurOp.Op \in {"D", "N", "H", "P"} => seqPos' = seqPos
              /\ CurOp.Op \in {"I", "S", "N", "H", "P"} =>
                    mdIndex' = mdIndex /\ mdSubPos' = mdSubPos
              /\ CurOp.Op = "H" =>
                    /\ refBuilder' = refBuilder
                    /\ alignedSeqBuilder' = alignedSeqBuilder
                    /\ markerBuilder' = markerBuilder ]_vars

\* A walk through an S operation of two bases and an H operation, MD in
\* use and untouched.
C19_Witness ==
    /\ pc = "done" /\ Len(cigarOps) = 2
    /\ cigarOps[1].Op = "S" /\ cigarOps[1].Length = 2 /\ cigarOps[2].Op = "H"
    /\ seqPos = 2 /\ Len(seq) >= 2 /\ Len(markerBuilder) = 2
    /\ hasMD /\ mdIndex = 0 /\ mdSubPos = 0

\* The events of one MD entry, one per reference position: a MatchRun of n
\* gives n matches (none when n = 0), a Mismatch its base, a Deletion one
\* deleted base per letter.
EntryEvents(e) ==
    IF e.IsDel THEN [k \in 1..Len(e.Changes) |-> [kind |-> "del", base |-> e.Changes[k]]]
    ELSE IF e.Num > 0 THEN Repeat([kind |-> "match", base |-> ""], e.Num)
    ELSE [k \in 1..Len(e.Changes) |-> [kind |-> "mm", base |-> e.Changes[k]]]

RECURSIVE Events(_)
Events(entries) ==
    IF entries = <<>> THEN <<>> ELSE EntryEvents(entries[1]) \o Events(Tail(entries))

\* The columns of the M, =, X and D positions, in order.
RefCols ==
    SelectSeq([j \in 1..Len(prov) |-> j], LAMBDA j : prov[j].op \in RefConsumingOps)

\* Column c shows what is shown without MD information.
ColumnWithoutMD(c) ==
    IF prov[c].op = "="
    THEN ~prov[c].isMismatch /\ refBuilder[c].ch = prov[c].readBase
    ELSE refBuilder[c].ch = "N" /\ (prov[c].op # "D" => prov[c].isMismatch)

\* The columns written so far are those that the events ev give (given: MD
\* is in use from the start): the n-th M/=/X/D column shows the n-th event;
\* the column after the last event is where the end of MD is found.
ColumnsFollow(ev, given) ==
    LET cols == RefCols
    IN  \A n \in 1..Len(cols) :
        LET c == cols[n]
        IN  IF given /\ n <= Len(ev)
            THEN IF prov[c].op = "D"
                 THEN ev[n].kind = "del" /\ refBuilder[c].ch = ev[n].base
                 ELSE \/ /\ ev[n].kind = "match" /\ ~prov[c].isMismatch
                         /\ refBuilder[c].ch = prov[c].readBase
                      \/ /\ ev[n].kind = "mm" /\ prov[c].isMismatch
                         /\ refBuilder[c].ch = ev[n].base
            ELSE IF given /\ n = Len(ev) + 1
            THEN refBuilder[c].ch = "N" /\ (prov[c].op # "D" => prov[c].isMismatch)
            ELSE ColumnWithoutMD(c)

MDConflictErrors ==
    {"MD tag indicates deletion during CIGAR M/=/X",
     "MD tag indicates match/mismatch during CIGAR D"}

\* The call was aborted for an MD entry of the wrong kind only where the
\* next event of ev is of the wrong kind for the current operation.
AbortFollows(ev, given) ==
    (pc = "error" /\ ret.err \in MDConflictErrors) =>
        /\ given /\ Len(RefCols) < Len(ev)
        /\ (ev[Len(RefCols) + 1].kind = "del") = (CurOp.Op \in AlignedOps)

\* The result so far is the one that the MD string str, decoded as res, gives.
FollowsParsed(str, res) ==
    LET given == str # <<>> /\ res.err = ""
        ev == Events(res.entries)
    IN  ColumnsFollow(ev, given) /\ AbortFollows(ev, given)

\* The result so far is the one that the MD string str gives.
ResultFollows(str) == FollowsParsed(str, parseMDTag(str))

\* str without its k-th character.
Without(str, k) == SubSeq(str, 1, k - 1) \o SubSeq(str, k + 1, Len(str))

\* The positions of a "0" that is a count of its own and has an event after
\* it: a leading one, or one right after a mismatch or deletion letter.
ZeroPositions(str) ==
    {k \in 1..(Len(str) - 1) :
        /\ str[k] = "0" /\ ~IsDigit(str[k + 1])
        /\ k = 1 \/ IsLetter(str[k - 1])}

MDAccepted == mdTag # <<>> /\ parseMDTag(mdTag).err = ""

\* C20 as stated: the result for an MD string is also the result for the
\* string without a leading "0" or without a "0" between a mismatch or
\* deletion and the following event.
C20_AnyZero ==
    (MDAccepted /\ pc \in {"loop", "done", "error"}) =>
        \A k \in ZeroPositions(mdTag) : ResultFollows(Without(mdTag, k))

\* C20 (amended): zero-count MatchRun entries consume no position and are
\* skipped without emitting anything before each M/=/X position and each
\* step of a D operation: the result is the one given by the events of the
\* entries, to which a zero count adds none.  So for two accepted MD strings
\* that differ only by a leading "0", or by a "0" between a mismatch or
\* deletion and a following deletion ('^'), the results are identical.  (A
\* "0" before a mismatch letter is not superfluous: without it the letter
\* makes the string rejected after a mismatch, or joins the deletion.)
C20_Placeholders ==
    (mdTag # <<>> /\ pc \in {"loop", "done", "error"}) =>
        LET res == parseMDTag(mdTag)
        IN  res.err = "" =>
              /\ FollowsParsed(mdTag, res)
              /\ \A k \in ZeroPositions(mdTag) :
                    (k = 1 \/ mdTag[k + 1] = "^") => ResultFollows(Without(mdTag, k))

\* A record whose MD has a "0" between a mismatch and a deletion was
\* rendered, the placeholder skipped in the D operation.
C20_Witness ==
    /\ MDAccepted /\ pc = "done" /\ hasMD
    /\ \E k \in ZeroPositions(mdTag) : k > 1 /\ mdTag[k + 1] = "^"
    /\ \E k \in 1..Len(mdEntries) : IsPlaceholder(mdEntries[k])
    /\ Len(RefCols) = Len(Events(mdEntries)) /\ Len(RefCols) >= 2
    /\ mdIndex = Len(mdEntries)

---------------------------------------------------------------------------
(* The base qualities of a record.  processSAMStdin splits the SAM line    *)
(* into fields and hands fields[9] (SEQ) to samToPairwise; the QUAL field, *)
(* fields[10], is read by nothing.                                         *)

\* Quality characters of Phred scores 0, 20 and 40.
QualChars == <<"!", "5", "I">>

AsciiCode(ch) == CASE ch = "!" -> 33 [] ch = "5" -> 53 [] ch = "I" -> 73

QualityScore(ch) == AsciiCode(ch) - 33

\* The QUAL string of the record: one character for each base of seq.
Qual == [k \in 1..Len(seq) |-> QualChars[((k - 1) % 3) + 1]]

\* The cutoffs a caller would configure.
QualityCutoffs == {20, 21}

LowConfidenceStyle == "low-confidence"

\* The index in seq (1-based) of the read base shown in column j.
ReadIndex(j) == Cardinality({c \in 1..j : prov[c].op \in ConsumingOps})

StyleOf(base, hl) ==
    CASE base = "A" /\ hl -> "bg-red"
      [] base = "T" /\ hl -> "bg-green"
      [] base = "G" /\ hl -> "bg-yellow"
      [] base = "C" /\ hl -> "bg-blue"
      [] base \in {"N", "n", "."} -> "darkgrey"
      [] OTHER -> ""

---------------------------------------------------------------------------
(* The MD cursor                                                           *)

\* The reference positions an MD entry stands for: the count of a MatchRun,
\* one for a Mismatch, one per base of a Deletion.
MDUnits(e) ==
    IF e.IsDel THEN Len(e.Changes) ELSE IF e.Num > 0 THEN e.Num ELSE Len(e.Changes)

RECURSIVE TotalUnits(_)
TotalUnits(entries) ==
    IF entries = <<>> THEN 0 ELSE MDUnits(entries[1]) + TotalUnits(Tail(entries))

\* The units consumed: the entries before the cursor and mdSubPos of the
\* entry under it.
UnitsConsumed == TotalUnits(SubSeq(mdEntries, 1, mdIndex)) + mdSubPos

\* The M, =, X and D positions emitted so far.
RefPositions == Cardinality({j \in 1..Len(prov) : prov[j].op \in RefConsumingOps})

\* The M, =, X and D positions the CIGAR string asks for.
RECURSIVE RefLen(_)
RefLen(ops) ==
    IF ops = <<>> THEN 0
    ELSE (IF ops[1].Op \in RefConsumingOps THEN ops[1].Length ELSE 0) + RefLen(Tail(ops))

\* C25: while MD is in use, the MD units consumed so far are as many as the
\* M/=/X/D positions emitted so far; and when the MD entries account for
\* exactly the M/=/X/D total of the CIGAR string, a finished walk has MD
\* still in use, mdSubPos = 0 and only zero-count placeholders unconsumed.
C25_Lockstep ==
    (pc \in {"loop", "done", "error"} /\ hasMD) =>
        /\ UnitsConsumed = RefPositions
        /\ (pc = "done" /\ TotalUnits(mdEntries) = RefLen(cigarOps)) =>
              /\ mdSubPos = 0
              /\ \A k \in (mdIndex + 1)..Len(mdEntries) : IsPlaceholder(mdEntries[k])

\* A finished walk whose MD accounts for the CIGAR total: it went through
\* two entries of three positions and left a placeholder unconsumed.
C25_Witness ==
    /\ pc = "done" /\ hasMD /\ TotalUnits(mdEntries) = RefLen(cigarOps)
    /\ UnitsConsumed = RefPositions /\ RefPositions >= 3
    /\ mdIndex = 2 /\ mdIndex < Len(mdEntries)

\* The cursor is inside the entry list: mdSubPos is 0, or it is a position
\* inside the MatchRun or Deletion under mdIndex.
CursorInRange ==
    /\ 0 <= mdIndex /\ mdIndex <= Len(mdEntries)
    /\ mdSubPos >= 0
    /\ mdSubPos > 0 =>
          /\ mdIndex < Len(mdEntries)
          /\ LET e == EntryAt(mdEntries, mdIndex)
             IN  \/ ~e.IsDel /\ e.Num > 0 /\ mdSubPos < e.Num
                 \/ e.IsDel /\ mdSubPos < Len(e.Changes)

\* C26: in every state of the walk 0 <= mdIndex <= len(mdEntries) and
\* mdIndex never decreases; mdSubPos > 0 only while mdIndex points at a
\* MatchRun with mdSubPos < count or at a Deletion with mdSubPos < number of
\* its bases (so mdEntries[mdIndex] and Changes[mdSubPos+j] are in range
\* wherever they are read).
C26_CursorBounds ==
    [][ /\ CursorInRange /\ CursorInRange'
        /\ mdIndex' >= mdIndex ]_vars

\* The cursor stands inside a Deletion, after a D operation shorter than it.
C26_Witness ==
    /\ pc = "loop" /\ hasMD /\ mdSubPos > 0 /\ mdIndex >= 1
    /\ mdIndex < Len(mdEntries) /\ EntryAt(mdEntries, mdIndex).IsDel

\* C27: whenever the walk is completed without error, seqPos is the sum of
\* the lengths of the M, I, S, = and X operations, so the condition of the
\* final check is false and its warning is never written; a sequence longer
\* than what the CIGAR string consumes gives the three tracks with no error
\* and no warning about it, the bases from seqPos on being read by nothing.
C27_FinalCheckDead ==
    /\ (pc = "loop" /\ opIdx > Len(cigarOps)) => seqPos = ExpectedSeqLen(cigarOps)
    /\ pc = "done" =>
          /\ seqPos = ExpectedSeqLen(cigarOps)
          /\ \A k \in 1..Len(warnings) : warnings[k] # InconsistencyWarning
          /\ ret.err = "" /\ ret.set /\ ret.markers = markerBuilder
          /\ seqPos <= Len(seq)
          /\ BasesRead = SubSeq(seq, 1, seqPos)

\* A finished walk over I, S and M operations that left a trailing base of
\* the sequence unread.
C27_Witness ==
    /\ pc = "done" /\ seqPos = ExpectedSeqLen(cigarOps) /\ seqPos >= 2
    /\ Len(seq) = seqPos + 1
    /\ \E k \in 1..Len(cigarOps) : cigarOps[k].Op \in {"I", "S"}
    /\ \E k \in 1..Len(cigarOps) : cigarOps[k].Op \in AlignedOps

---------------------------------------------------------------------------
(* The shape of the entries (checked under SpecParse)                      *)

IsMatchRun(e) == e.Changes = <<>> /\ ~e.IsDel /\ e.Num >= 0

IsMismatch(e) == Len(e.Changes) = 1 /\ e.Num = 0 /\ ~e.IsDel /\ IsLetter(e.Changes[1])

IsDeletion(e) ==
    /\ Len(e.Changes) >= 1 /\ e.IsDel /\ e.Num = 0
    /\ \A k \in 1..Len(e.Changes) : IsLetter(e.Changes[k])

\* The number of the three shapes an entry has.
ShapesOf(e) ==
    (IF IsMatchRun(e) THEN 1 ELSE 0) + (IF IsMismatch(e) THEN 1 ELSE 0)
        + (IF IsDeletion(e) THEN 1 ELSE 0)

\* C28: every entry list returned by parseMDTag is well formed: each entry
\* is exactly one of MatchRun (Changes empty, IsDel false), Mismatch (Changes
\* of length 1, Num 0, IsDel false) or Deletion (Changes non-empty, IsDel
\* true), and no two MatchRun entries are adjacent; so an entry that is
\* neither a deletion nor a MatchRun of a positive count nor a placeholder
\* has exactly one base (the reconstructor's test len(Changes) != 1 is
\* false for every entry it reaches).
C28_WellFormed ==
    (MDReturned /\ pResult.err = "") =>
        /\ \A k \in 1..Len(pResult.entries) : ShapesOf(pResult.entries[k]) = 1
        /\ \A k \in 1..(Len(pResult.entries) - 1) :
              ~(IsMatchRun(pResult.entries[k]) /\ IsMatchRun(pResult.entries[k + 1]))
        /\ \A k \in 1..Len(pResult.entries) :
              LET e == pResult.entries[k]
              IN  (~e.IsDel /\ ~(e.Num > 0) /\ ~IsPlaceholder(e)) => Len(e.Changes) = 1

\* A returned list with a match run, a mismatch and a deletion.
C28_Witness ==
    /\ MDReturned /\ pResult.err = "" /\ Len(pResult.entries) = 3
    /\ \E k \in 1..3 : IsMatchRun(pResult.entries[k]) /\ pResult.entries[k].Num > 0
    /\ \E k \in 1..3 : IsMismatch(pResult.entries[k])
    /\ \E k \in 1..3 : IsDeletion(pResult.entries[k])

---------------------------------------------------------------------------
(* processSAMStdin: the loop over the lines of standard input              *)

\* A line of standard input.  Of the whitespace-separated fields of a record
\* the model keeps FLAG (fields[1]), CIGAR (fields[5]), SEQ (fields[9]) and
\* the optional fields (fields[11:]), each split into its first five
\* characters and the rest; the other fields are only copied to the info line.
\* kind: "header" starts with "@", "short" has fewer than 11 fields, "long"
\* is longer than the scanner's buffer.
SamLine(flagStr, s, c, tags) ==
    [kind |-> "record", flagStr |-> flagStr, cigar |-> c, seq |-> s, tags |-> tags]

OtherLine(kind) ==
    [kind |-> kind, flagStr |-> <<>>, cigar |-> <<>>, seq |-> <<>>, tags |-> <<>>]

MDField(val) == [prefix |-> "MD:Z:", rest |-> val]

NMField == [prefix |-> "NM:i:", rest |-> <<"1">>]

\* strconv.Atoi(flagStr) returns no error (the model has no signed flags)
FlagOk(flagStr) ==
    /\ flagStr # <<>>
    /\ \A k \in 1..Len(flagStr) : IsDigit(flagStr[k])
    /\ AtoiOk(flagStr)

\* (flag & mask) != 0 for a mask of one bit
BitSet(flag, mask) == (flag \div mask) % 2 = 1

\* The two filters exchanged.
KeptByFilterSwapped(flag, forward) ==
    LET isRead1 == BitSet(flag, 64)
        isRead2 == BitSet(flag, 128)
        isReverse == BitSet(flag, 16)
    IN  IF forward
        THEN (isRead1 /\ isReverse) \/ (isRead2 /\ ~isReverse)
        ELSE (isRead1 /\ ~isReverse) \/ (isRead2 /\ isReverse)

\* lines 141-155: the record is kept by the filter in force
KeptByFilter(flag, forward) ==
    LET isRead1 == BitSet(flag, 64)
        isRead2 == BitSet(flag, 128)
        isReverse == BitSet(flag, 16)
    IN  IF forward
        THEN (isRead1 /\ ~isReverse) \/ (isRead2 /\ isReverse)
        ELSE (isRead1 /\ isReverse) \/ (isRead2 /\ ~isReverse)

\* lines 158-163: the value of the first optional field that starts with MD:Z:
RECURSIVE ExtractMD(_, _)
ExtractMD(tags, value) ==
    IF tags = <<>> THEN value
    ELSE IF tags[1].prefix = "MD:Z:" THEN tags[1].rest
    ELSE ExtractMD(Tail(tags), value)

\* A read of continueProcessing by the main goroutine.  The write of line 91
\* is not ordered with it by any synchronisation, so after the write the read
\* may return the new value or the initial one.
ReadContinue == {continueProcessing, TRUE}

\* The messages written to stderr.
SkipShortMsg == "Skipping invalid SAM record (less than 11 fields)"
SkipFlagMsg == "Skipping invalid SAM record (invalid flag)"
ReadErrorMsg == "Error processing read"
ScanErrorMsg == "Error reading standard input"
ExitMsg == "Signal received. Finishing current record and exiting."

\* fmt.Fprintln(os.Stderr, ...) under "if continueProcessing"; k is the input
\* line the message is about (0: none)
WarnIf(c, k, msg) ==
    stderr' = IF c THEN Append(stderr, [line |-> k, msg |-> msg]) ELSE stderr

\* lines 178-183: the five lines of the block of a record, in order.  The
\* info line also carries the read name, the reference name and the position.
BlockPart(part, k, l, md, r) ==
    [line |-> k, part |-> part,
     text |-> CASE part = 1 -> <<l.flagStr, l.cigar, md>>
                [] part = 2 -> r.aligned
                [] part = 3 -> r.markers
                [] part = 4 -> r.ref
                [] OTHER -> <<>>]

BlockParts == 5

\* The lines of the block of input line k written so far.
PartsPrinted(k) == Len(SelectSeq(stdout, LAMBDA e : e.line = k))

\* The call variables of a call that starts: the arguments, and the locals
\* of lines 341-353 at their initial values.
CallStarts(s, c, m) ==
    /\ seq' = s /\ cigar' = c /\ mdTag' = m
    /\ cigarOps' = <<>> /\ mdEntries' = <<>> /\ hasMD' = FALSE /\ mdParseErr' = FALSE
    /\ mdIndex' = 0 /\ mdSubPos' = 0 /\ seqPos' = 0 /\ opIdx' = 1 /\ i' = 0
    /\ refBuilder' = <<>> /\ alignedSeqBuilder' = <<>> /\ markerBuilder' = <<>>
    /\ ret' = NoRet /\ warnings' = <<>> /\ prov' = <<>>
    /\ pc' = "call"
    /\ UNCHANGED <<useKnownMutation, knownRefBase, knownAltBase, markChar>>

\* Reference runs: samToPairwise on the fields of each line alone, before
\* the loop starts.
RefCall ==
    /\ dpc = "ref" /\ pc = "idle" /\ Len(alone) < Len(lines)
    /\ LET l == lines[Len(alone) + 1]
       IN  IF l.kind = "record"
           THEN /\ CallStarts(l.seq, l.cigar, ExtractMD(l.tags, <<>>))
                /\ alone' = alone
           ELSE /\ alone' = Append(alone, NoRet)
                /\ UNCHANGED <<argVars, walkVars>>
    /\ UNCHANGED <<lines, filterForward, filterReverse, scanned, scanErr, dpc,
                   continueProcessing, interruptChan, mdTagValue, stdout, stderr,
                   afterSet>>
    /\ UNCHANGED <<parseVars, concVars, poolVars>>

RefReturn ==
    /\ dpc = "ref" /\ pc \in {"done", "error"}
    /\ alone' = Append(alone, ret)
    /\ pc' = "idle"
    /\ UNCHANGED <<cigarOps, mdEntries, hasMD, mdParseErr, mdIndex, mdSubPos, seqPos,
                   opIdx, i, refBuilder, alignedSeqBuilder, markerBuilder, ret,
                   warnings, prov>>
    /\ UNCHANGED <<lines, filterForward, filterReverse, scanned, scanErr, dpc,
                   continueProcessing, interruptChan, mdTagValue, stdout, stderr,
                   afterSet>>
    /\ UNCHANGED <<parseVars, argVars, concVars, poolVars>>

\* lines 85-106: the signal goroutine is started, the scanner and the
\* configuration are set up.
Start ==
    /\ dpc = "ref" /\ pc = "idle" /\ Len(alone) = Len(lines)
    /\ dpc' = "cond"
    /\ UNCHANGED <<lines, filterForward, filterReverse, scanned, scanErr,
                   continueProcessing, interruptChan, mdTagValue, stdout, stderr,
                   alone, afterSet>>
    /\ UNCHANGED <<parseVars, argVars, walkVars, concVars, poolVars>>

\* line 108, left operand: continueProcessing is read.
LoopCond ==
    /\ dpc = "cond"
    /\ \E c \in ReadContinue : dpc' = IF c THEN "scan" ELSE "after"
    /\ UNCHANGED <<lines, filterForward, filterReverse, scanned, scanErr,
                   continueProcessing, interruptChan, mdTagValue, stdout, stderr,
                   alone, afterSet>>
    /\ UNCHANGED <<parseVars, argVars, walkVars, concVars, poolVars>>

\* line 108, right operand: scanner.Scan() returns the next line, or false at
\* the end of the input and at a line that does not fit its buffer.
Scan ==
    /\ dpc = "scan"
    /\ IF scanned < Len(lines) /\ lines[scanned + 1].kind # "long"
       THEN /\ scanned' = scanned + 1
            /\ dpc' = "body"
            /\ scanErr' = scanErr
            /\ afterSet' = IF afterSet.set
                           THEN [afterSet EXCEPT !.scans = @ + 1] ELSE afterSet
       ELSE /\ dpc' = "after"
            /\ scanErr' = (scanned < Len(lines))
            /\ UNCHANGED <<scanned, afterSet>>
    /\ UNCHANGED <<lines, filterForward, filterReverse, continueProcessing,
                   interruptChan, mdTagValue, stdout, stderr, alone>>
    /\ UNCHANGED <<parseVars, argVars, walkVars, concVars, poolVars>>

\* mdTagValue declared before the loop instead of in its body.
BodyKeepsMD ==
    /\ dpc = "body"
    /\ LET l == lines[scanned]
           skip == /\ dpc' = "cond"
                   /\ UNCHANGED <<argVars, walkVars, mdTagValue>>
       IN  IF l.kind = "header"
           THEN skip /\ stderr' = stderr
           ELSE IF l.kind = "short"
           THEN skip /\ \E c \in ReadContinue : WarnIf(c, scanned, SkipShortMsg)
           ELSE IF (filterForward \/ filterReverse) /\ ~FlagOk(l.flagStr)
           THEN skip /\ \E c \in ReadContinue : WarnIf(c, scanned, SkipFlagMsg)
           ELSE IF (filterForward \/ filterReverse)
                   /\ ~KeptByFilter(Atoi(l.flagStr), filterForward)
           THEN skip /\ stderr' = stderr
           ELSE /\ mdTagValue' = ExtractMD(l.tags, mdTagValue)
                /\ CallStarts(l.seq, l.cigar, mdTagValue')
                /\ dpc' = "walk"
                /\ stderr' = stderr
    /\ UNCHANGED <<lines, filterForward, filterReverse, scanned, scanErr,
                   continueProcessing, interruptChan, stdout, alone, afterSet>>
    /\ UNCHANGED <<parseVars, concVars, poolVars>>

\* lines 109-167: a header line and a line of fewer than 11 fields are skipped;
\* the record is filtered by its FLAG; mdTagValue is declared, the MD tag is
\* looked up and samToPairwise is called.
Body ==
    /\ dpc = "body"
    /\ LET l == lines[scanned]
           skip == /\ dpc' = "cond"
                   /\ UNCHANGED <<argVars, walkVars, mdTagValue>>
       IN  IF l.kind = "header"
           THEN skip /\ stderr' = stderr
           ELSE IF l.kind = "short"
           THEN skip /\ \E c \in ReadContinue : WarnIf(c, scanned, SkipShortMsg)
           ELSE IF (filterForward \/ filterReverse) /\ ~FlagOk(l.flagStr)
           THEN skip /\ \E c \in ReadContinue : WarnIf(c, scanned, SkipFlagMsg)
           ELSE IF (filterForward \/ filterReverse)
                   /\ ~KeptByFilter(Atoi(l.flagStr), filterForward)
           THEN skip /\ stderr' = stderr
           ELSE /\ mdTagValue' = ExtractMD(l.tags, <<>>)
                /\ CallStarts(l.seq, l.cigar, mdTagValue')
                /\ dpc' = "walk"
                /\ stderr' = stderr
    /\ UNCHANGED <<lines, filterForward, filterReverse, scanned, scanErr,
                   continueProcessing, interruptChan, stdout, alone, afterSet>>
    /\ UNCHANGED <<parseVars, concVars, poolVars>>

\* lines 168-176: an error is reported and the record skipped; otherwise
\* continueProcessing decides whether the block is printed.
Returned ==
    /\ dpc = "walk" /\ pc \in {"done", "error"}
    /\ \E c \in ReadContinue :
          IF ret.err # ""
          THEN /\ WarnIf(c, scanned, ReadErrorMsg)
               /\ dpc' = "cond"
               /\ afterSet' = afterSet
          ELSE /\ stderr' = stderr
               /\ dpc' = IF c THEN "print" ELSE "cond"
               /\ afterSet' = IF c /\ afterSet.set
                              THEN [afterSet EXCEPT !.blocks = @ + 1] ELSE afterSet
    /\ UNCHANGED <<lines, filterForward, filterReverse, scanned, scanErr,
                   continueProcessing, interruptChan, mdTagValue, stdout, alone>>
    /\ UNCHANGED <<parseVars, argVars, walkVars, concVars, poolVars>>

\* lines 178-183: one line of the block is written to stdout.
PrintPart ==
    /\ dpc = "print"
    /\ LET part == PartsPrinted(scanned) + 1
       IN  /\ stdout' = Append(stdout,
                               BlockPart(part, scanned, lines[scanned], mdTagValue, ret))
           /\ dpc' = IF part = BlockParts THEN "cond" ELSE "print"
    /\ UNCHANGED <<lines, filterForward, filterReverse, scanned, scanErr,
                   continueProcessing, interruptChan, mdTagValue, stderr, alone,
                   afterSet>>
    /\ UNCHANGED <<parseVars, argVars, walkVars, concVars, poolVars>>

\* lines 188-192: a scanner error is reported unless interrupted.
AfterLoop ==
    /\ dpc = "after"
    /\ \E c \in ReadContinue : WarnIf(scanErr /\ c, scanned + 1, ScanErrorMsg)
    /\ dpc' = "exit"
    /\ UNCHANGED <<lines, filterForward, filterReverse, scanned, scanErr,
                   continueProcessing, interruptChan, mdTagValue, stdout, alone,
                   afterSet>>
    /\ UNCHANGED <<parseVars, argVars, walkVars, concVars, poolVars>>

\* lines 195-198: the exit message, if interrupted.
ExitMessage ==
    /\ dpc = "exit"
    /\ \E c \in ReadContinue : WarnIf(~c, 0, ExitMsg)
    /\ dpc' = "end"
    /\ UNCHANGED <<lines, filterForward, filterReverse, scanned, scanErr,
                   continueProcessing, interruptChan, mdTagValue, stdout, alone,
                   afterSet>>
    /\ UNCHANGED <<parseVars, argVars, walkVars, concVars, poolVars>>

\* SIGINT or SIGTERM is delivered to the channel registered at line 86.
Signal ==
    /\ dpc \notin {"off", "ref", "end"} /\ interruptChan = "empty"
    /\ interruptChan' = "signal"
    /\ UNCHANGED <<lines, filterForward, filterReverse, scanned, scanErr, dpc,
                   continueProcessing, mdTagValue, stdout, stderr, alone, afterSet>>
    /\ UNCHANGED <<parseVars, argVars, walkVars, concVars, poolVars>>

\* lines 89-92: the signal goroutine receives and clears continueProcessing.
SignalGoroutine ==
    /\ dpc \notin {"off", "ref", "end"} /\ interruptChan = "signal"
    /\ interruptChan' = "received"
    /\ continueProcessing' = FALSE
    /\ afterSet' = [set |-> TRUE, scans |-> 0, blocks |-> 0]
    /\ UNCHANGED <<lines, filterForward, filterReverse, scanned, scanErr, dpc,
                   mdTagValue, stdout, stderr, alone>>
    /\ UNCHANGED <<parseVars, argVars, walkVars, concVars, poolVars>>

MaxLines == 2       \* lines of an input of several lines

\* Lines for the inputs of several lines: records with and without MD, with a
\* deletion that the walk ends inside of, one that samToPairwise rejects, one
\* with every other operation, and the lines that are not records.
ContentLines ==
    {SamLine(<<"0">>, Read(0, 2), Token(2, "M"), <<MDField(<<"1", "A", "0">>)>>),
     SamLine(<<"0">>, Read(0, 2), Token(2, "M"), <<>>),
     SamLine(<<"0">>, Read(0, 1), Token(1, "M") \o Token(1, "D"),
             <<MDField(<<"1", "^", "G", "A", "1">>)>>),
     SamLine(<<"0">>, Read(0, 2), Token(3, "M"), <<MDField(<<"3">>)>>),
     SamLine(<<"0">>, Read(0, 3),
             Concat(<<Token(1, "H"), Token(1, "S"), Token(1, "I"), Token(1, "P"),
                      Token(1, "N"), Token(1, "D"), Token(1, "M")>>), <<NMField>>),
     OtherLine("header"), OtherLine("short"), OtherLine("long")}

\* FLAG fields: every combination of the bits 0x10, 0x40 and 0x80, a bit that
\* no filter reads, and strings that are not an int.
FlagStrings ==
    {Itoa(a + b + c) : a \in {0, 16}, b \in {0, 64}, c \in {0, 128}}
    \cup {Itoa(4 + 64), <<"x">>, LongDigits}

\* Lines for the inputs of one line: every FLAG, on a record whose second MD
\* field is not the one used and on a record that samToPairwise rejects.
FlagLines ==
    {SamLine(f, s.seq, s.cigar, s.tags) :
        f \in FlagStrings,
        s \in {[seq |-> Read(0, 2), cigar |-> Token(2, "M"),
                tags |-> <<NMField, MDField(<<"2">>), MDField(<<"1", "A", "0">>)>>],
               [seq |-> Read(0, 1), cigar |-> <<"M">>, tags |-> <<>>]}}

\* The flags -f and -r: Run refuses both together (lines 68-70).
Filters == {<<FALSE, FALSE>>, <<TRUE, FALSE>>, <<FALSE, TRUE>>}

DriverInputs ==
    \/ /\ \E n \in 0..MaxLines : lines \in [1..n -> ContentLines]
       /\ filterForward = FALSE /\ filterReverse = FALSE
    \/ \E l \in FlagLines, f \in Filters :
          lines = <<l>> /\ filterForward = f[1] /\ filterReverse = f[2]

\* processSAMStdin on an input, after the reference runs.
InitDriver ==
    /\ ParseIdle
    /\ DriverInputs
    /\ Args(<<>>, <<>>, <<>>, Mutation("."))
    /\ WalkStart /\ pc = "idle"
    /\ scanned = 0 /\ scanErr = FALSE /\ dpc = "ref"
    /\ continueProcessing = TRUE /\ interruptChan = "empty"
    /\ mdTagValue = <<>> /\ stdout = <<>> /\ stderr = <<>>
    /\ alone = <<>> /\ afterSet = NotSet
    /\ ConcIdle /\ PoolIdle

NextDriver ==
    \/ RefCall
    \/ RefReturn
    \/ Start
    \/ LoopCond
    \/ Scan
    \/ Body
    \/ Returned
    \/ PrintPart
    \/ AfterLoop
    \/ ExitMessage
    \/ Signal
    \/ SignalGoroutine
    \/ Next

SpecDriver == InitDriver /\ [][NextDriver]_vars

---------------------------------------------------------------------------
(* Properties of the driver (checked under SpecDriver)                     *)

\* The record passes the filter in force, if any.
PassesFilter(l) ==
    (filterForward \/ filterReverse)
        => FlagOk(l.flagStr) /\ KeptByFilter(Atoi(l.flagStr), filterForward)

\* Line k is a record that passes the filter and that samToPairwise, run on
\* it alone, accepts.
BlockExpected(k) ==
    lines[k].kind = "record" /\ PassesFilter(lines[k]) /\ alone[k].err = ""

\* The body of the loop has finished with line k.
Handled(k) ==
    k < scanned \/ (k = scanned /\ dpc \in {"cond", "scan", "after", "exit", "end"})

\* Every line written to stdout is the line of the block that the record
\* gives when run alone, and the lines of a block come in order, blocks in
\* input order.
StdoutFromAlone ==
    \A j \in 1..Len(stdout) :
        LET e == stdout[j]
            l == lines[e.line]
        IN  /\ e.line \in 1..scanned
            /\ l.kind = "record" /\ alone[e.line].set /\ alone[e.line].err = ""
            /\ e = BlockPart(e.part, e.line, l, ExtractMD(l.tags, <<>>), alone[e.line])
            /\ IF j > 1 /\ stdout[j - 1].line = e.line
               THEN e.part = stdout[j - 1].part + 1
               ELSE e.part = 1 /\ (j > 1 => /\ stdout[j - 1].line < e.line
                                            /\ stdout[j - 1].part = BlockParts)

HasBit(n, b) == (n % (2 * b)) >= b

\* C24: filtering by FLAG.  A record is processed (samToPairwise is called
\* on it) under -f iff (0x40 set and 0x10 clear) or (0x80 set and 0x10 set),
\* under -r iff (0x40 set and 0x10 set) or (0x80 set and 0x10 clear), and
\* under neither flag always, whatever its FLAG field; under -f or -r a FLAG
\* that is not an int is skipped; a FLAG with exactly one of 0x40 and 0x80
\* set is kept by exactly one of the two filters.
C24_Filter ==
    [][ (dpc = "body" /\ dpc' # "body" /\ lines[scanned].kind = "record") =>
            LET f == lines[scanned].flagStr
                n == Atoi(f)
                processed == (dpc' = "walk" /\ pc' = "call")
            IN  /\ (~filterForward /\ ~filterReverse) => processed
                /\ (filterForward /\ FlagOk(f)) =>
                      (processed <=> \/ HasBit(n, 64) /\ ~HasBit(n, 16)
                                     \/ HasBit(n, 128) /\ HasBit(n, 16))
                /\ (filterReverse /\ FlagOk(f)) =>
                      (processed <=> \/ HasBit(n, 64) /\ HasBit(n, 16)
                                     \/ HasBit(n, 128) /\ ~HasBit(n, 16))
                /\ ((filterForward \/ filterReverse) /\ ~FlagOk(f)) => ~processed
                /\ (FlagOk(f) /\ (HasBit(n, 64) # HasBit(n, 128))) =>
                      (KeptByFilter(n, TRUE) # KeptByFilter(n, FALSE))
      ]_vars

\* Under -r a record with FLAG 80 (0x40 and 0x10) has been handed to
\* samToPairwise.
C24_Witness ==
    /\ dpc = "walk" /\ filterReverse
    /\ lines[scanned].flagStr = Itoa(64 + 16)

\* C29: interrupt handling.  Once the signal goroutine has set
\* continueProcessing to false, the loop decides to print no further block
\* and scans at most one more line, and a block is printed in full or not at
\* all.
C29_Interrupt ==
    /\ afterSet.set => afterSet.blocks = 0 /\ afterSet.scans <= 1
    /\ dpc = "end" => \A k \in 1..Len(lines) : PartsPrinted(k) \in {0, BlockParts}

---------------------------------------------------------------------------
(* Two calls of samToPairwise on two goroutines                            *)

\* The variables of a call (parameters, locals, position, return values) of
\* the goroutine that is running.  stderr is the process's, not the call's.
Frame ==
    [seq |-> seq, cigar |-> cigar, mdTag |-> mdTag,
     useKnownMutation |-> useKnownMutation, knownRefBase |-> knownRefBase,
     knownAltBase |-> knownAltBase, markChar |-> markChar,
     cigarOps |-> cigarOps, mdEntries |-> mdEntries, hasMD |-> hasMD,
     mdParseErr |-> mdParseErr, mdIndex |-> mdIndex, mdSubPos |-> mdSubPos,
     seqPos |-> seqPos, opIdx |-> opIdx, i |-> i, refBuilder |-> refBuilder,
     alignedSeqBuilder |-> alignedSeqBuilder, markerBuilder |-> markerBuilder,
     pc |-> pc, ret |-> ret, prov |-> prov]

\* The goroutine that owns frame f is given the processor.
Resume(f) ==
    /\ seq' = f.seq /\ cigar' = f.cigar /\ mdTag' = f.mdTag
    /\ useKnownMutation' = f.useKnownMutation /\ knownRefBase' = f.knownRefBase
    /\ knownAltBase' = f.knownAltBase /\ markChar' = f.markChar
    /\ cigarOps' = f.cigarOps /\ mdEntries' = f.mdEntries /\ hasMD' = f.hasMD
    /\ mdParseErr' = f.mdParseErr /\ mdIndex' = f.mdIndex /\ mdSubPos' = f.mdSubPos
    /\ seqPos' = f.seqPos /\ opIdx' = f.opIdx /\ i' = f.i
    /\ refBuilder' = f.refBuilder /\ alignedSeqBuilder' = f.alignedSeqBuilder
    /\ markerBuilder' = f.markerBuilder /\ pc' = f.pc /\ ret' = f.ret
    /\ prov' = f.prov

\* The frame of a call at entry (lines 340-353).
NewCall(a) ==
    [seq |-> a.seq, cigar |-> a.cigar, mdTag |-> a.mdTag,
     useKnownMutation |-> a.cfg.use, knownRefBase |-> a.cfg.ref,
     knownAltBase |-> a.cfg.alt, markChar |-> a.cfg.mark,
     cigarOps |-> <<>>, mdEntries |-> <<>>, hasMD |-> FALSE,
     mdParseErr |-> FALSE, mdIndex |-> 0, mdSubPos |-> 0,
     seqPos |-> 0, opIdx |-> 1, i |-> 0, refBuilder |-> <<>>,
     alignedSeqBuilder |-> <<>>, markerBuilder |-> <<>>,
     pc |-> "call", ret |-> NoRet, prov |-> <<>>]

\* The arguments of the call of frame f.
ArgsOf(f) ==
    [seq |-> f.seq, cigar |-> f.cigar, mdTag |-> f.mdTag,
     cfg |-> [use |-> f.useKnownMutation, ref |-> f.knownRefBase,
              alt |-> f.knownAltBase, mark |-> f.markChar]]

\* Reference runs: each of the two calls runs alone to its end, first the
\* one, then the other; after them both calls start again.
AloneDone ==
    /\ running # 0 /\ Len(alone) < 2 /\ pc \in {"done", "error"}
    /\ alone' = Append(alone, ret)
    /\ Resume(other)
    /\ other' = NewCall(ArgsOf(Frame))
    /\ running' = 3 - running
    /\ UNCHANGED <<warnings, lines, filterForward, filterReverse, scanned, scanErr, dpc,
                   continueProcessing, interruptChan, mdTagValue, stdout, stderr,
                   afterSet>>
    /\ UNCHANGED <<parseVars, poolVars>>

\* mdIndex as a package-level variable: it stays where the suspended
\* goroutine left it.
SwitchSharedIndex ==
    /\ running # 0 /\ Len(alone) = 2
    /\ Resume([other EXCEPT !.mdIndex = mdIndex])
    /\ other' = Frame
    /\ running' = 3 - running
    /\ UNCHANGED <<warnings, driverVars, parseVars, poolVars>>

\* The scheduler takes the processor from one goroutine and gives it to the
\* other, between any two steps.
Switch ==
    /\ running # 0 /\ Len(alone) = 2
    /\ Resume(other)
    /\ other' = Frame
    /\ running' = 3 - running
    /\ UNCHANGED <<warnings, driverVars, parseVars, poolVars>>

\* The records of the two calls.
ConcRecords ==
    {[seq |-> Read(0, 2), cigar |-> Token(2, "M"), mdTag |-> <<"1", "A", "0">>],
     [seq |-> Read(0, 2), cigar |-> Token(2, "M"), mdTag |-> <<>>],
     [seq |-> Read(0, 2), cigar |-> Token(1, "M") \o Token(1, "D") \o Token(1, "M"),
      mdTag |-> <<"1", "^", "G", "A", "1">>],
     [seq |-> Read(0, 2), cigar |-> Token(3, "M"), mdTag |-> <<"3">>],
     [seq |-> Read(0, 3),
      cigar |-> Concat(<<Token(1, "H"), Token(1, "S"), Token(1, "I"), Token(1, "P"),
                         Token(1, "N"), Token(1, "D"), Token(1, "M")>>),
      mdTag |-> <<>>]}

\* Two goroutines, each about to call samToPairwise on its record.
InitConc ==
    /\ ParseIdle /\ DriverIdle /\ PoolIdle
    /\ \E a \in ConcRecords, b \in ConcRecords, ca \in {NoMutation, Mutation(".")} :
          /\ Args(a.seq, a.cigar, a.mdTag, ca)
          /\ other = NewCall([seq |-> b.seq, cigar |-> b.cigar, mdTag |-> b.mdTag,
                              cfg |-> Mutation(".")])
    /\ WalkStart /\ pc = "call"
    /\ running = 1

NextConc ==
    \/ AloneDone
    \/ Switch
    \/ Next

SpecConc == InitConc /\ [][NextConc]_vars

\* C23: two concurrent calls share no mutable state.  Under every
\* interleaving of the steps of two calls, each call returns the four values
\* it returns when run alone, and two calls on the same arguments return the
\* same values.
C23_Independent ==
    (running # 0 /\ Len(alone) = 2) =>
        /\ pc \in {"done", "error"} => ret = alone[running]
        /\ other.pc \in {"done", "error"} => other.ret = alone[3 - running]
        /\ ArgsOf(Frame) = ArgsOf(other) => alone[1] = alone[2]

\* One call has returned its result while the other, on a different record,
\* is suspended in the middle of its walk, with its own MD cursor advanced.
C23_Witness ==
    /\ running # 0 /\ Len(alone) = 2
    /\ pc = "done" /\ ret.err = "" /\ ret = alone[running] /\ mdIndex > 0
    /\ other.pc = "loop" /\ other.seqPos > 0 /\ other.mdSubPos > 0
    /\ ArgsOf(Frame) # ArgsOf(other)

---------------------------------------------------------------------------
(* processFilesConcurrently and processFilesConcurrentlySimple: the pool   *)
(* of workers that read the barcodes                                       *)

MaxFiles == 5       \* files handed to the pool

defaultMaxWorkers == 4

Min(a, b) == IF a < b THEN a ELSE b

\* The k-th file of the input: files of the same parity have the same sample
\* name and paths.
FileAt(k) ==
    [SampleName |-> IF k % 2 = 1 THEN "s1" ELSE "s2",
     RelativePath |-> IF k % 2 = 1 THEN "a_R1.fq.gz" ELSE "b_R1.fq.gz",
     AbsolutePath |-> IF k % 2 = 1 THEN "/run/a_R1.fq.gz" ELSE "/run/b_R1.fq.gz"]

\* The variable job of a worker outside the body of its loop.
NoJob == [SampleName |-> "", RelativePath |-> "", AbsolutePath |-> ""]

\* worker, lines 279-284: the result of a job; the barcode is what
\* getBarcodeFromFastqGo reads from the file at the absolute path.
ResultOf(job) ==
    [SampleName |-> job.SampleName, RelativePath |-> job.RelativePath,
     Barcode |-> <<"barcode of", job.AbsolutePath>>]

\* Capacity of jobs and of resultChannel.
Capacity == Len(files)

\* The state of a worker; worker does not use its id, so the workers are a
\* bag of states.
Worker(at, job) == [pc |-> at, job |-> job]

\* The workers at position at.
WorkersAt(at) == {s \in BagToSet(workers) : s.pc = at}

\* One worker goes from state s to state t.
WorkerStep(s, t) == workers' = (workers (-) SetToBag({s})) (+) SetToBag({t})

\* lines 232-253 (Simple: 240-271): the channels are made and the workers
\* started; Simple adds the workers to the WaitGroup first.
StartWorkers ==
    /\ mpc = "start"
    /\ workers' = IF numWorkers = 0 THEN EmptyBag
                  ELSE [s \in {Worker("recv", NoJob)} |-> numWorkers]
    /\ wg' = IF simple THEN numWorkers ELSE wg
    /\ mpc' = IF simple THEN "send" ELSE "add"
    /\ UNCHANGED <<simple, files, numWorkers, jobs, jobsClosed, resultChannel,
                   resultClosed, fileIdx, waiter, results, fault>>
    /\ UNCHANGED <<parseVars, argVars, walkVars, driverVars, concVars>>

\* line 255: wg.Add(len(files))
AddFiles ==
    /\ mpc = "add"
    /\ wg' = wg + Len(files)
    /\ mpc' = "send"
    /\ UNCHANGED <<simple, files, numWorkers, jobs, jobsClosed, resultChannel,
                   resultClosed, fileIdx, workers, waiter, results, fault>>
    /\ UNCHANGED <<parseVars, argVars, walkVars, driverVars, concVars>>

\* lines 256-261 (Simple: 273-276): jobs <- files[i]; a send on a full
\* channel blocks.
SendJob ==
    /\ mpc = "send" /\ fileIdx < Len(files)
    /\ Len(jobs) < Capacity
    /\ jobs' = Append(jobs, files[fileIdx + 1])
    /\ fileIdx' = fileIdx + 1
    /\ UNCHANGED <<simple, files, numWorkers, jobsClosed, resultChannel, resultClosed,
                   wg, mpc, workers, waiter, results, fault>>
    /\ UNCHANGED <<parseVars, argVars, walkVars, driverVars, concVars>>

\* line 262 (Simple: 277): close(jobs)
CloseJobs ==
    /\ mpc = "send" /\ fileIdx = Len(files)
    /\ jobsClosed' = TRUE
    /\ mpc' = "go"
    /\ UNCHANGED <<simple, files, numWorkers, jobs, resultChannel, resultClosed,
                   wg, fileIdx, workers, waiter, results, fault>>
    /\ UNCHANGED <<parseVars, argVars, walkVars, driverVars, concVars>>

\* line 264 (Simple: 280-283): the goroutine that waits and closes is started
StartWaiter ==
    /\ mpc = "go"
    /\ waiter' = "wait"
    /\ mpc' = "collect"
    /\ UNCHANGED <<simple, files, numWorkers, jobs, jobsClosed, resultChannel,
                   resultClosed, wg, fileIdx, workers, results, fault>>
    /\ UNCHANGED <<parseVars, argVars, walkVars, driverVars, concVars>>

\* lines 266-273 (Simple: 286-294): for result := range resultChannel, then
\* return; the receive blocks while the channel is empty and open.
Collect ==
    /\ mpc = "collect"
    /\ IF resultChannel # <<>>
       THEN /\ results' = Append(results, Head(resultChannel))
            /\ resultChannel' = Tail(resultChannel)
            /\ mpc' = mpc
       ELSE /\ resultClosed
            /\ mpc' = "return"
            /\ UNCHANGED <<results, resultChannel>>
    /\ UNCHANGED <<simple, files, numWorkers, jobs, jobsClosed, resultClosed,
                   wg, fileIdx, workers, waiter, fault>>
    /\ UNCHANGED <<parseVars, argVars, walkVars, driverVars, concVars>>

\* worker, line 278 (Simple: 260): for job := range jobs; the receive blocks
\* while jobs is empty and open, and the loop ends when it is empty and closed.
WorkerReceive ==
    /\ \E s \in WorkersAt("recv") :
          IF jobs # <<>>
          THEN /\ WorkerStep(s, Worker("send", Head(jobs)))
               /\ jobs' = Tail(jobs)
          ELSE /\ jobsClosed
               /\ WorkerStep(s, Worker(IF simple THEN "exit" ELSE "end", NoJob))
               /\ jobs' = jobs
    /\ UNCHANGED <<simple, files, numWorkers, jobsClosed, resultChannel, resultClosed,
                   wg, mpc, fileIdx, waiter, results, fault>>
    /\ UNCHANGED <<parseVars, argVars, walkVars, driverVars, concVars>>

\* worker, lines 279-284 (Simple: 262-267): the barcode is read and the
\* result sent; a send on a closed channel panics, a send on a full one blocks.
WorkerSend ==
    /\ \E s \in WorkersAt("send") :
          IF resultClosed
          THEN /\ fault' = "send on closed channel"
               /\ WorkerStep(s, Worker("end", NoJob))
               /\ resultChannel' = resultChannel
          ELSE /\ Len(resultChannel) < Capacity
               /\ resultChannel' = Append(resultChannel, ResultOf(s.job))
               /\ WorkerStep(s, IF simple THEN Worker("recv", NoJob)
                                ELSE Worker("done", s.job))
               /\ fault' = fault
    /\ UNCHANGED <<simple, files, numWorkers, jobs, jobsClosed, resultClosed,
                   wg, mpc, fileIdx, waiter, results>>
    /\ UNCHANGED <<parseVars, argVars, walkVars, driverVars, concVars>>

\* worker, line 285: job.WaitGroup.Done() after each job; Simple, line 259:
\* the deferred wg.Done() when the worker returns.  A counter below zero
\* panics.
WorkerDone ==
    /\ \E s \in WorkersAt(IF simple THEN "exit" ELSE "done") :
          IF wg = 0
          THEN /\ fault' = "negative WaitGroup counter"
               /\ wg' = wg
               /\ WorkerStep(s, Worker("end", NoJob))
          ELSE /\ fault' = fault
               /\ wg' = wg - 1
               /\ WorkerStep(s, Worker(IF simple THEN "end" ELSE "recv", NoJob))
    /\ UNCHANGED <<simple, files, numWorkers, jobs, jobsClosed, resultChannel,
                   resultClosed, mpc, fileIdx, waiter, results>>
    /\ UNCHANGED <<parseVars, argVars, walkVars, driverVars, concVars>>

\* The result channel is closed without waiting for the counter.
WaiterNoWait ==
    /\ waiter = "wait"
    /\ waiter' = "close"
    /\ UNCHANGED <<simple, files, numWorkers, jobs, jobsClosed, resultChannel,
                   resultClosed, wg, mpc, fileIdx, workers, results, fault>>
    /\ UNCHANGED <<parseVars, argVars, walkVars, driverVars, concVars>>

\* line 264 (Simple: 281): wg.Wait() returns when the counter is zero
WaiterWait ==
    /\ waiter = "wait" /\ wg = 0
    /\ waiter' = "close"
    /\ UNCHANGED <<simple, files, numWorkers, jobs, jobsClosed, resultChannel,
                   resultClosed, wg, mpc, fileIdx, workers, results, fault>>
    /\ UNCHANGED <<parseVars, argVars, walkVars, driverVars, concVars>>

\* line 264 (Simple: 282): close(resultChannel)
WaiterClose ==
    /\ waiter = "close"
    /\ resultClosed' = TRUE
    /\ waiter' = "end"
    /\ UNCHANGED <<simple, files, numWorkers, jobs, jobsClosed, resultChannel,
                   wg, mpc, fileIdx, workers, results, fault>>
    /\ UNCHANGED <<parseVars, argVars, walkVars, driverVars, concVars>>

\* A call of either function on n files.
InitPool ==
    /\ ParseIdle /\ DriverIdle /\ ConcIdle
    /\ Args(<<>>, <<>>, <<>>, NoMutation) /\ WalkStart /\ pc = "idle"
    /\ simple \in BOOLEAN
    /\ \E n \in 0..MaxFiles : files = [k \in 1..n |-> FileAt(k)]
    /\ numWorkers = Min(defaultMaxWorkers, Len(files))
    /\ jobs = <<>> /\ jobsClosed = FALSE
    /\ resultChannel = <<>> /\ resultClosed = FALSE
    /\ wg = 0 /\ mpc = "start" /\ fileIdx = 0
    /\ workers = EmptyBag
    /\ waiter = "off" /\ results = <<>> /\ fault = ""

NextPool ==
    \/ StartWorkers
    \/ AddFiles
    \/ SendJob
    \/ CloseJobs
    \/ StartWaiter
    \/ Collect
    \/ WorkerReceive
    \/ WorkerSend
    \/ WorkerDone
    \/ WaiterWait
    \/ WaiterClose

SpecPool == InitPool /\ [][NextPool]_vars

---------------------------------------------------------------------------
(* Properties of the pool (checked under SpecPool)                         *)

\* The (SampleName, RelativePath) pair of a file or of a result.
PairOf(r) == <<r.SampleName, r.RelativePath>>

\* How many elements of the sequence s have the pair p.
PairCount(s, p) == Cardinality({k \in 1..Len(s) : PairOf(s[k]) = p})

\* The results sent so far.
Sent == Len(resultChannel) + Len(results)

\* Some goroutine can take a step.
PoolCanStep == ENABLED NextPool

\* No panic has happened; no send is blocked on a full channel; the result
\* channel is closed only when every result has been sent; the function does
\* not return before it has one result per file; and unless it has returned,
\* some goroutine can take a step.
PoolSafe ==
    /\ fault = ""
    /\ mpc \notin {"off", "start"} =>
          BagCardinality(workers) = Min(defaultMaxWorkers, Len(files))
    /\ WorkersAt("send") # {} => ~resultClosed /\ Len(resultChannel) < Capacity
    /\ (mpc = "send" /\ fileIdx < Len(files)) => Len(jobs) < Capacity
    /\ (resultClosed \/ waiter \in {"close", "end"}) =>
          Sent = Len(files) /\ WorkersAt("send") = {} /\ jobs = <<>>
    /\ \A k \in 1..Len(results) :
          PairCount(results, PairOf(results[k])) <= PairCount(files, PairOf(results[k]))
    /\ mpc = "return" =>
          /\ Len(results) = Len(files)
          /\ \A k \in 1..Len(files) :
                PairCount(results, PairOf(files[k])) = PairCount(files, PairOf(files[k]))
          /\ \A k \in 1..Len(results) :
                \E j \in 1..Len(files) : results[k] = ResultOf(files[j])
    /\ mpc # "return" => PoolCanStep

\* How far the calling goroutine, a worker and the closing goroutine have come.
MainRank ==
    CASE mpc = "add" -> 1 [] mpc = "send" -> 2 [] mpc = "go" -> 3
      [] mpc = "collect" -> 4 [] mpc = "return" -> 5 [] OTHER -> 0

WorkerRank(at) ==
    CASE at = "send" -> 1 [] at = "done" -> 2 [] at = "exit" -> 3
      [] at = "end" -> 4 [] OTHER -> 0

WaiterRank ==
    CASE waiter = "wait" -> 1 [] waiter = "close" -> 2 [] waiter = "end" -> 3
      [] OTHER -> 0

RECURSIVE RankSum(_)
RankSum(S) ==
    IF S = {} THEN 0
    ELSE LET s == CHOOSE x \in S : TRUE
         IN  CopiesIn(s, workers) * WorkerRank(s.pc) + RankSum(S \ {s})

\* A number that every step of every goroutine increases and that is bounded
\* for a given number of files: how far each goroutine has come, with the
\* weights chosen so that a worker going back to the head of its loop (after
\* a send, or after a Done that lowers the counter) still adds to it.
PoolProgress ==
    100 * MainRank + fileIdx + Len(results) + 3 * Sent
    + RankSum(BagToSet(workers)) + WaiterRank - 3 * wg

\* C30: the worker pool.  For every number of files and every interleaving:
\* there are min(4, n) workers; no goroutine sends on a closed channel, and
\* no send finds its channel full; the result channel is closed only after
\* every result has been sent; the function returns exactly one result per
\* input file (the same multiset of (SampleName, RelativePath) pairs); and it
\* terminates: unless the function has returned some goroutine can take a
\* step, and every step increases a bounded measure of progress.
C30_Pool ==
    []PoolSafe /\ [][PoolProgress' > PoolProgress]_vars

\* The function has returned on more files than there are workers, with the
\* results in another order than the files.
C30_Witness ==
    /\ mpc = "return" /\ ~simple
    /\ Len(files) > defaultMaxWorkers
    /\ Len(results) = Len(files)
    /\ PairOf(results[1]) # PairOf(files[1])
    /\ PairOf(results[2]) = PairOf(results[3])

=============================================================================
